---- MODULE Spec2Model ----
(***************************************************************************)
(* Terminal path hyperlinks: the hovered word of a terminal line, the      *)
(* surrounding-symbol scan, the variations of a candidate range            *)
(* (MaybePathVariant) and their relative and absolutized projections.      *)
(*                                                                         *)
(* A line is a sequence of one-byte characters (strings of length 1).      *)
(* Byte ranges are Rust half-open ranges start..end with 0-based offsets.  *)
(* An Option is a sequence of length 0 (None) or 1 (Some).                 *)
(* Paths follow std::path on unix: a root flag and the list of normal      *)
(* components; `/` is the only separator.                                  *)
(***************************************************************************)
EXTENDS Integers, Sequences, FiniteSets

VARIABLES
    line,                \* MaybePath.line, MaybePathLike.line
    hovered_word_range,  \* MaybePath.hovered_word_range, MaybePathLike.word_range
    pc,                  \* which operation produced the current outputs
    surrounding,         \* result of longest_surrounding_symbols_match
    candidate,           \* the range handed to MaybePathVariant::new
    variant,             \* Option of the MaybePathVariant built last
    prefix_to_strip,     \* argument of relative_variations
    relative,            \* result of relative_variations
    absolutized,         \* result of absolutized_variations
    path_hyperlink_regexes, \* MaybePath.path_hyperlink_regexes
    default_variants,    \* what default_maybe_path_variants yielded
    advanced_variants,   \* what advanced_maybe_path_variants yielded
    exhaustive_variants, \* what exhaustive_maybe_path_variants yielded
    term,                \* the cells of the terminal line under the pointer
    word_match,          \* MaybePathLike.word_match
    regexes_tried,       \* the path_regexes argument of path_regex_match
    regex_match,         \* result of path_regex_match
    hovered_word,        \* result of best_heuristic_hovered_word
    text_range,          \* argument of match_from_text_range
    text_match,          \* result of match_from_text_range
    navigation,          \* the path_hyperlink_navigation setting of a resolution
    fs,                  \* what the filesystem answers to metadata, path by path
    pulled,              \* how many variants the resolution has taken from the tiers
    queue,               \* the absolutized candidates of the variant taken last, not yet probed
    probes,              \* the paths metadata was asked for, in order
    cancelled,           \* the cancel signal of the resolution
    open_target          \* the open target the resolution surfaced

variant_vars == <<surrounding, candidate, variant, prefix_to_strip, relative, absolutized>>

tier_vars == <<path_hyperlink_regexes, default_variants, advanced_variants,
               exhaustive_variants>>

like_vars == <<term, word_match, regexes_tried, regex_match, hovered_word,
               text_range, text_match>>

resolve_vars == <<navigation, fs, pulled, queue, probes, cancelled, open_target>>

vars == <<line, hovered_word_range, pc, variant_vars, tier_vars, like_vars, resolve_vars>>

----------------------------------------------------------------------------
(* Options, ranges, slices *)

None == <<>>

Some(x) == <<x>>

IsSome(o) == Len(o) > 0

Unwrap(o) == o[1]

Rng(s, e) == [start |-> s, end |-> e]

\* Range::len: zero when start >= end
RangeLen(r) == IF r.end > r.start THEN r.end - r.start ELSE 0

\* Range::contains
Contains(r, i) == r.start <= i /\ i < r.end

IsSubrange(r, base) == base.start <= r.start /\ r.start <= r.end /\ r.end <= base.end

Slice(text, r) == SubSeq(text, r.start + 1, r.end)

Min(S) == CHOOSE x \in S : \A y \in S : x <= y

Max(S) == CHOOSE x \in S : \A y \in S : x >= y

IndicesOf(text, c) == {i \in 1..Len(text) : text[i] = c}

\* str::find(char): byte offset of the first occurrence
find(text, c) == IF IndicesOf(text, c) = {} THEN None ELSE Some(Min(IndicesOf(text, c)) - 1)

\* str::rfind(char): byte offset of the last occurrence
rfind(text, c) == IF IndicesOf(text, c) = {} THEN None ELSE Some(Max(IndicesOf(text, c)) - 1)

starts_with(text, c) == Len(text) > 0 /\ text[1] = c

ends_with(text, c) == Len(text) > 0 /\ text[Len(text)] = c

----------------------------------------------------------------------------
(* terminal_maybe_path_like.rs *)

MAIN_SEPARATORS == {"\\", "/"}

COMMON_PATH_SURROUNDING_SYMBOLS ==
    << <<"\"", "\"">>, <<"'", "'">>, <<"[", "]">>, <<"(", ")">> >>

\* Faulty variant: only the start of the word is looked at
surrounds_word_start(current, word_range) ==
    Contains(current, word_range.start)

surrounds_word(current, word_range) ==
    Contains(current, word_range.start) /\ Contains(current, word_range.end - 1)

\* Faulty variant: >= lets the pair listed last win a tie
replaces_longest_or_equal(current, longest_so_far) ==
    RangeLen(current) >= RangeLen(longest_so_far)

\* `if current.len() > longest_so_far.len()`: a later pair replaces the
\* longest so far only when strictly longer.
replaces_longest(current, longest_so_far) ==
    RangeLen(current) > RangeLen(longest_so_far)

RECURSIVE scan_surrounding_symbols(_, _, _, _)
scan_surrounding_symbols(text, word_range, k, longest) ==
    IF k > Len(COMMON_PATH_SURROUNDING_SYMBOLS) THEN longest
    ELSE LET first == find(text, COMMON_PATH_SURROUNDING_SYMBOLS[k][1])
             last == rfind(text, COMMON_PATH_SURROUNDING_SYMBOLS[k][2])
             current == Rng(Unwrap(first), Unwrap(last) + 1)
             take == /\ IsSome(first)
                     /\ IsSome(last)
                     /\ Unwrap(first) < Unwrap(last)
                     /\ surrounds_word(current, word_range)
                     /\ (IsSome(longest) => replaces_longest(current, Unwrap(longest)))
         IN scan_surrounding_symbols(text, word_range, k + 1,
                                     IF take THEN Some(current) ELSE longest)

longest_surrounding_symbols_match(text, word_range) ==
    scan_surrounding_symbols(text, word_range, 1, None)

----------------------------------------------------------------------------
(* std::path::Path on unix, as far as the operations below use it *)

RECURSIVE split_components(_, _, _)
split_components(text, i, current) ==
    LET done == IF current = <<>> THEN <<>> ELSE <<current>>
    IN IF i > Len(text) THEN done
       ELSE IF text[i] = "/" THEN done \o split_components(text, i + 1, <<>>)
       ELSE split_components(text, i + 1, Append(current, text[i]))

\* Path::components: repeated separators and a trailing separator vanish,
\* `.` is kept only as the first component of a path without a root.
RECURSIVE drop_cur_dir(_, _, _)
drop_cur_dir(comps, i, keep_first) ==
    IF i > Len(comps) THEN <<>>
    ELSE (IF comps[i] = <<".">> /\ ~(i = 1 /\ keep_first) THEN <<>> ELSE <<comps[i]>>)
         \o drop_cur_dir(comps, i + 1, keep_first)

PathOf(text) ==
    [has_root |-> starts_with(text, "/"),
     comps |-> drop_cur_dir(split_components(text, 1, <<>>), 1, ~starts_with(text, "/"))]

is_absolute(p) == p.has_root

is_relative(p) == ~is_absolute(p)

\* Path::join: an absolute argument replaces the base
join(base, p) ==
    IF is_absolute(p) THEN p
    ELSE [has_root |-> base.has_root, comps |-> base.comps \o p.comps]

\* Path::strip_prefix: Ok(rest) when base's components are a prefix of p's
strip_prefix(p, base) ==
    IF /\ p.has_root = base.has_root
       /\ Len(base.comps) <= Len(p.comps)
       /\ SubSeq(p.comps, 1, Len(base.comps)) = base.comps
    THEN Some([has_root |-> FALSE,
               comps |-> SubSeq(p.comps, Len(base.comps) + 1, Len(p.comps))])
    ELSE None

----------------------------------------------------------------------------
(* util::paths::PathWithPosition::parse_row_column, which is not among the   *)
(* sources: a trailing `:ROW`, `:ROW:COL` or `(ROW,COL)` after a non-empty   *)
(* path. Returns the byte offset where the suffix starts (the length of the  *)
(* text when there is none), the row and the column.                         *)

DigitChars == <<"0", "1", "2", "3", "4", "5", "6", "7", "8", "9">>

IsDigit(c) == \E i \in 1..Len(DigitChars) : DigitChars[i] = c

DigitValue(c) == (CHOOSE i \in 1..Len(DigitChars) : DigitChars[i] = c) - 1

RECURSIVE DecimalValue(_)
DecimalValue(digits) ==
    IF digits = <<>> THEN 0
    ELSE 10 * DecimalValue(SubSeq(digits, 1, Len(digits) - 1)) + DigitValue(digits[Len(digits)])

\* number of consecutive digits of text that end at (1-based) index last
RECURSIVE DigitsEndingAt(_, _)
DigitsEndingAt(text, last) ==
    IF last >= 1 /\ last <= Len(text) /\ IsDigit(text[last])
    THEN 1 + DigitsEndingAt(text, last - 1)
    ELSE 0

NoRowColumn(text) == [suffix_start |-> Len(text), row |-> None, column |-> None]

parse_row_column(text) ==
    LET n == Len(text)
        \* :ROW:COL and :ROW
        c2 == DigitsEndingAt(text, n)
        colon2 == n - c2
        c1 == DigitsEndingAt(text, colon2 - 1)
        colon1 == colon2 - 1 - c1
        \* (ROW,COL)
        p2 == DigitsEndingAt(text, n - 1)
        comma == n - 1 - p2
        p1 == DigitsEndingAt(text, comma - 1)
        open == comma - 1 - p1
    IN IF c2 > 0 /\ colon2 >= 1 /\ text[colon2] = ":"
       THEN IF c1 > 0 /\ colon1 > 1 /\ text[colon1] = ":"
            THEN [suffix_start |-> colon1 - 1,
                  row |-> Some(DecimalValue(SubSeq(text, colon1 + 1, colon2 - 1))),
                  column |-> Some(DecimalValue(SubSeq(text, colon2 + 1, n)))]
            ELSE IF colon2 > 1
            THEN [suffix_start |-> colon2 - 1,
                  row |-> Some(DecimalValue(SubSeq(text, colon2 + 1, n))),
                  column |-> None]
            ELSE NoRowColumn(text)
       ELSE IF /\ ends_with(text, ")") /\ p2 > 0 /\ comma >= 1 /\ text[comma] = ","
               /\ p1 > 0 /\ open > 1 /\ text[open] = "("
       THEN [suffix_start |-> open - 1,
             row |-> Some(DecimalValue(SubSeq(text, open + 1, comma - 1))),
             column |-> Some(DecimalValue(SubSeq(text, comma + 1, n - 1)))]
       ELSE NoRowColumn(text)

----------------------------------------------------------------------------
(* terminal_view/src/terminal_maybe_path.rs: MaybePathVariant *)

\* "Strip common surrounding symbols, if any": some pair opens and closes the slice
\* Faulty variant: no pair of surrounding symbols is recognised
common_symbols_kept(maybe_path) == FALSE

common_symbols_stripped(maybe_path) ==
    \E k \in 1..Len(COMMON_PATH_SURROUNDING_SYMBOLS) :
        /\ starts_with(maybe_path, COMMON_PATH_SURROUNDING_SYMBOLS[k][1])
        /\ ends_with(maybe_path, COMMON_PATH_SURROUNDING_SYMBOLS[k][2])

\* Faulty variant: the stripped range is pushed after the original
push_stripped(variations, stripped) == variations \o <<stripped>>

\* `variations.insert(0, path.clone())` with the stripped range
insert_stripped(variations, stripped) == <<stripped>> \o variations

\* Faulty variant: a git diff prefix is looked for after a symbol strip too
git_diff_prefixed_any(maybe_path, stripped) ==
    /\ (starts_with(maybe_path, "a") \/ starts_with(maybe_path, "b"))
    /\ \E sep \in MAIN_SEPARATORS : starts_with(Tail(maybe_path), sep)

\* "Git diff parsing--only if we did not strip common symbols"
git_diff_prefixed(maybe_path, stripped) ==
    /\ ~stripped
    /\ (starts_with(maybe_path, "a") \/ starts_with(maybe_path, "b"))
    /\ \E sep \in MAIN_SEPARATORS : starts_with(Tail(maybe_path), sep)

\* `variations.push(path.start + 2..path.end)`
git_diff_variation(path) == Rng(path.start + 2, path.end)

\* Faulty variant: row and column are parsed on the git diff variation
row_column_path_git(path, git_diff) ==
    IF git_diff THEN Rng(path.start + 2, path.end) ELSE path

\* The range whose text is parsed for a row and a column: maybe_path is not
\* updated after the git diff variation is pushed.
row_column_path(path, git_diff) == path

\* `let suffix_length = maybe_path.len() - suffix_start`
suffix_length_of(maybe_path, suffix_start) == Len(maybe_path) - suffix_start

MaybePathVariant_new(text, range) ==
    LET long == Len(Slice(text, range)) > 2
        stripped == long /\ common_symbols_stripped(Slice(text, range))
        path == IF stripped THEN Rng(range.start + 1, range.end - 1) ELSE range
        maybe_path == Slice(text, path)
        git_diff == long /\ git_diff_prefixed(maybe_path, stripped)
        with_stripped == IF stripped THEN insert_stripped(<<range>>, path) ELSE <<range>>
        variations == IF git_diff THEN Append(with_stripped, git_diff_variation(path))
                      ELSE with_stripped
        rc_path == row_column_path(path, git_diff)
        parsed == parse_row_column(Slice(text, rc_path))
        suffix_length == suffix_length_of(Slice(text, rc_path), parsed.suffix_start)
    IN [variations |-> variations,
        positioned_variation |->
            IF long /\ IsSome(parsed.row)
            THEN Some([range |-> Rng(rc_path.start, rc_path.end - suffix_length),
                       position |-> [row |-> Unwrap(parsed.row),
                                     column |-> parsed.column,
                                     suffix_length |-> suffix_length]])
            ELSE None,
        absolutize_home_dir |-> ~git_diff]

\* MaybePathWithPosition::new
MaybePathWithPosition(range, path, position) ==
    [range |-> range, path |-> path, position |-> position]

\* Faulty variant: the suffix is left out of the hyperlink
hyperlink_range_plain(c) == c.range

\* MaybePathWithPosition::hyperlink_range
hyperlink_range(c) ==
    IF IsSome(c.position)
    THEN Rng(c.range.start, c.range.end + Unwrap(c.position).suffix_length)
    ELSE c.range

\* Faulty variant: the positioned variation comes last
relative_order_positioned_last(v) ==
    [i \in 1..Len(v.variations) |-> [range |-> v.variations[i], position |-> None]]
    \o (IF IsSome(v.positioned_variation)
        THEN << [range |-> Unwrap(v.positioned_variation).range,
                 position |-> Some(Unwrap(v.positioned_variation).position)] >>
        ELSE <<>>)

\* The (range, position) pairs relative_variations walks: "The positioned
\* variation, if any, is the most likely path"
relative_order(v) ==
    (IF IsSome(v.positioned_variation)
     THEN << [range |-> Unwrap(v.positioned_variation).range,
              position |-> Some(Unwrap(v.positioned_variation).position)] >>
     ELSE <<>>)
    \o [i \in 1..Len(v.variations) |-> [range |-> v.variations[i], position |-> None]]

\* The filter of relative_variations: `maybe_path.is_relative().then(..)`
yields_relative(maybe_path) == is_relative(maybe_path)

\* Faulty variant: the prefix is never stripped
keep_worktree_prefix(maybe_path, prefix) == maybe_path

\* `prefix_to_strip.map_or(maybe_path, |p| maybe_path.strip_prefix(p).unwrap_or(maybe_path))`
strip_worktree_prefix(maybe_path, prefix) ==
    IF IsSome(prefix) /\ IsSome(strip_prefix(maybe_path, Unwrap(prefix)))
    THEN Unwrap(strip_prefix(maybe_path, Unwrap(prefix)))
    ELSE maybe_path

RECURSIVE relative_filter_map(_, _, _, _)
relative_filter_map(text, entries, i, prefix) ==
    IF i > Len(entries) THEN <<>>
    ELSE LET maybe_path == PathOf(Slice(text, entries[i].range))
         IN (IF yields_relative(maybe_path)
             THEN << MaybePathWithPosition(entries[i].range,
                                           strip_worktree_prefix(maybe_path, prefix),
                                           entries[i].position) >>
             ELSE <<>>)
            \o relative_filter_map(text, entries, i + 1, prefix)

relative_variations(v, text, prefix) ==
    relative_filter_map(text, relative_order(v), 1, prefix)

\* Faulty variant: a lone `~` is not expanded
home_dir_candidates_with_tail(v, variation_path, home_dir, variation_range, position) ==
    IF /\ v.absolutize_home_dir
       /\ IsSome(strip_prefix(variation_path, PathOf(<<"~">>)))
       /\ Unwrap(strip_prefix(variation_path, PathOf(<<"~">>))).comps # <<>>
    THEN << [range |-> variation_range,
             path |-> join(home_dir, Unwrap(strip_prefix(variation_path, PathOf(<<"~">>)))),
             position |-> position] >>
    ELSE <<>>

\* Faulty variant: the absolutize_home_dir flag is not consulted
home_dir_candidates_always(v, variation_path, home_dir, variation_range, position) ==
    IF IsSome(strip_prefix(variation_path, PathOf(<<"~">>)))
    THEN << [range |-> variation_range,
             path |-> join(home_dir, Unwrap(strip_prefix(variation_path, PathOf(<<"~">>)))),
             position |-> position] >>
    ELSE <<>>

\* absolutize_home_dir (not windows): the `~` component is replaced by home_dir
home_dir_candidates(v, variation_path, home_dir, variation_range, position) ==
    IF v.absolutize_home_dir /\ IsSome(strip_prefix(variation_path, PathOf(<<"~">>)))
    THEN << MaybePathWithPosition(
                variation_range,
                join(home_dir, Unwrap(strip_prefix(variation_path, PathOf(<<"~">>)))),
                position) >>
    ELSE <<>>

\* `for root in roots { absolutized.push(.. root.join(variation_path) ..) }`
root_candidates(roots, variation_path, variation_range, position) ==
    [i \in 1..Len(roots) |->
        MaybePathWithPosition(variation_range, join(roots[i], variation_path), position)]

\* Faulty variant: no early return for an absolute path
absolutize_without_return(v, text, roots, home_dir, variation_range, position) ==
    LET variation_path == PathOf(Slice(text, variation_range))
    IN (IF is_absolute(variation_path)
        THEN << MaybePathWithPosition(variation_range, variation_path, position) >>
        ELSE <<>>)
       \o root_candidates(roots, variation_path, variation_range, position)
       \o home_dir_candidates(v, variation_path, home_dir, variation_range, position)

absolutize(v, text, roots, home_dir, variation_range, position) ==
    LET variation_path == PathOf(Slice(text, variation_range))
    IN IF is_absolute(variation_path)
       THEN << MaybePathWithPosition(variation_range, variation_path, position) >>
       ELSE root_candidates(roots, variation_path, variation_range, position)
            \o home_dir_candidates(v, variation_path, home_dir, variation_range, position)

RECURSIVE absolutize_each(_, _, _, _, _)
absolutize_each(v, text, roots, home_dir, i) ==
    IF i > Len(v.variations) THEN <<>>
    ELSE absolutize(v, text, roots, home_dir, v.variations[i], None)
         \o absolutize_each(v, text, roots, home_dir, i + 1)

\* Faulty variant: the positioned variation comes first, as in
\* relative_variations
absolutized_positioned_first(v, text, roots, home_dir) ==
    (IF IsSome(v.positioned_variation)
     THEN absolutize(v, text, roots, home_dir,
                     Unwrap(v.positioned_variation).range,
                     Some(Unwrap(v.positioned_variation).position))
     ELSE <<>>)
    \o absolutize_each(v, text, roots, home_dir, 1)

absolutized_variations(v, text, roots, home_dir) ==
    absolutize_each(v, text, roots, home_dir, 1)
    \o (IF IsSome(v.positioned_variation)
        THEN absolutize(v, text, roots, home_dir,
                        Unwrap(v.positioned_variation).range,
                        Some(Unwrap(v.positioned_variation).position))
        ELSE <<>>)

----------------------------------------------------------------------------
(* WORD_REGEX, which is not among the sources: a word is a maximal run of     *)
(* path-friendly characters; here every character but the blank, so that     *)
(* `:` `(` `)` and `,` belong to words as the tests of                        *)
(* ROW_COLUMN_DESCRIPTION_REGEX require.                                      *)

IsWordChar(c) == c # " "

RECURSIVE SortedSeq(_)
SortedSeq(S) == IF S = {} THEN <<>> ELSE <<Min(S)>> \o SortedSeq(S \ {Min(S)})

Reverse(seq) == [i \in 1..Len(seq) |-> seq[Len(seq) + 1 - i]]

\* 0-based offsets at which a word starts
WordStarts(text) ==
    {i \in 0..(Len(text) - 1) :
        IsWordChar(text[i + 1]) /\ (i = 0 \/ ~IsWordChar(text[i]))}

\* the end of the word that starts at offset s
WordEndOf(text, s) ==
    Min({e \in (s + 1)..Len(text) : e = Len(text) \/ ~IsWordChar(text[e + 1])})

\* word_regex().find_iter(text): the words of text, in order
word_find_iter(text) ==
    LET starts == SortedSeq(WordStarts(text))
    IN [i \in 1..Len(starts) |-> Rng(starts[i], WordEndOf(text, starts[i]))]

----------------------------------------------------------------------------
(* Regexes with a named `path` group, by what Regex::captures returns for a  *)
(* line: the leftmost match only, with the range of its `path` group when    *)
(* the group took part in the match.                                         *)

\* `(?<path>WORD_REGEX):`
ROW_COLUMN_DESCRIPTION_REGEX == [kind |-> "word_colon"]

\* `(?<path>c+)`
RunRegex(c) == [kind |-> "run", ch |-> c]

\* `(?<path>c)|d`
AltRegex(c, d) == [kind |-> "alt", ch |-> c, other |-> d]

PREAPPROVED_PATH_HYPERLINK_REGEXES == <<ROW_COLUMN_DESCRIPTION_REGEX>>

preapproved_path_hyperlink_regexes == PREAPPROVED_PATH_HYPERLINK_REGEXES

\* end of the run of c that starts at offset s
RunEndOf(text, c, s) ==
    Min({e \in (s + 1)..Len(text) : e = Len(text) \/ text[e + 1] # c})

\* the words that hold a `:` after their first character, in order
WordsWithColon(text) ==
    LET HasColon(w) == \E i \in (w.start + 1)..(w.end - 1) : text[i + 1] = ":"
    IN SelectSeq(word_find_iter(text), HasColon)

\* the offset of the last `:` of a word
LastColonOf(text, w) ==
    Max({i \in (w.start + 1)..(w.end - 1) : text[i + 1] = ":"})

\* regex.captures(&line): None, or the `path` group of the leftmost match
captures(regex, text) ==
    IF regex.kind = "word_colon"
    THEN IF WordsWithColon(text) = <<>> THEN None
         ELSE Some([path |-> Some(Rng(WordsWithColon(text)[1].start,
                                      LastColonOf(text, WordsWithColon(text)[1])))])
    ELSE IF regex.kind = "run"
    THEN IF IsSome(find(text, regex.ch))
         THEN Some([path |-> Some(Rng(Unwrap(find(text, regex.ch)),
                                      RunEndOf(text, regex.ch, Unwrap(find(text, regex.ch)))))])
         ELSE None
    ELSE LET hits == IndicesOf(text, regex.ch) \cup IndicesOf(text, regex.other)
         IN IF hits = {} THEN None
            ELSE IF text[Min(hits)] = regex.ch
            THEN Some([path |-> Some(Rng(Min(hits) - 1, Min(hits)))])
            ELSE Some([path |-> None])

\* `hovered_word_range.contains(&path_capture.start())
\*      || hovered_word_range.contains(&path_capture.end())`
capture_touches_hovered(hovered, capture) ==
    Contains(hovered, capture.start) \/ Contains(hovered, capture.end)

RECURSIVE path_regex_scan(_, _, _, _)
path_regex_scan(text, hovered, regexes, i) ==
    IF i > Len(regexes) THEN None
    ELSE LET found == captures(regexes[i], text)
         IN IF ~IsSome(found) THEN path_regex_scan(text, hovered, regexes, i + 1)
            ELSE IF ~IsSome(Unwrap(found).path)
            THEN path_regex_scan(text, hovered, regexes, i + 1)
            ELSE IF capture_touches_hovered(hovered, Unwrap(Unwrap(found).path))
            THEN Unwrap(found).path
            ELSE path_regex_scan(text, hovered, regexes, i + 1)

\* Faulty variant: the scan stops at the first regex that does not match
path_regex_match_first_only(text, hovered, regexes) ==
    path_regex_scan(text, hovered, SubSeq(regexes, 1, Min({1, Len(regexes)})), 1)

\* `for regex in path_regexes.iter().chain(path_regexes.iter())`
path_regex_match(text, hovered, regexes) ==
    path_regex_scan(text, hovered, regexes \o regexes, 1)

----------------------------------------------------------------------------
(* terminal_view/src/terminal_maybe_path.rs: the tiers of MaybePath. A tier   *)
(* is the sequence of ranges it hands to MaybePathVariant::new, in the order  *)
(* its iterator yields them.                                                  *)

MAX_MAIN_THREAD_PREFIX_WORDS == 2

\* usize::MAX, as the largest integer of the model checker
MAX_BACKGROUND_THREAD_PREFIX_WORDS == 2147483647

\* Iterator::skip
skip(seq, n) == SubSeq(seq, Min({n, Len(seq)}) + 1, Len(seq))

\* Iterator::take
take(seq, n) == SubSeq(seq, 1, Min({n, Len(seq)}))

\* the range longest_surrounding_symbols_variants builds its variant from, if any
longest_surrounding_symbols_variants(text, hovered) ==
    LET found == longest_surrounding_symbols_match(text, hovered)
    IN IF IsSome(found) /\ Unwrap(found) # hovered
       THEN << Rng(Unwrap(found).start + 1, Unwrap(found).end - 1) >>
       ELSE <<>>

path_regex_variants(text, hovered, path_regexes) ==
    path_regex_match(text, hovered, path_regexes)

line_ends_in_a_path_maybe_path_variants(text, hovered, start_prefix_words, max_prefix_words) ==
    LET found == word_find_iter(SubSeq(text, 1, hovered.end))
        kept == take(skip(found, start_prefix_words), max_prefix_words)
    IN [i \in 1..Len(kept) |-> Rng(kept[i].start, Len(text))]

\* Faulty variant: the regex capture is yielded before the surrounding symbols
default_regex_before_symbols(text, hovered) ==
    <<hovered>>
    \o path_regex_variants(text, hovered, preapproved_path_hyperlink_regexes)
    \o longest_surrounding_symbols_variants(text, hovered)
    \o Reverse(line_ends_in_a_path_maybe_path_variants(
                   text, hovered, 0, MAX_MAIN_THREAD_PREFIX_WORDS))

\* Faulty variant: the sweep is yielded in line order
default_sweep_in_line_order(text, hovered) ==
    <<hovered>>
    \o longest_surrounding_symbols_variants(text, hovered)
    \o path_regex_variants(text, hovered, preapproved_path_hyperlink_regexes)
    \o line_ends_in_a_path_maybe_path_variants(
           text, hovered, 0, MAX_MAIN_THREAD_PREFIX_WORDS)

default_maybe_path_variants(text, hovered) ==
    <<hovered>>
    \o longest_surrounding_symbols_variants(text, hovered)
    \o path_regex_variants(text, hovered, preapproved_path_hyperlink_regexes)
    \o Reverse(line_ends_in_a_path_maybe_path_variants(
                   text, hovered, 0, MAX_MAIN_THREAD_PREFIX_WORDS))

\* Faulty variant: the sweep starts again at the first word
advanced_from_first_word(text, hovered, path_regexes) ==
    path_regex_variants(text, hovered, path_regexes)
    \o line_ends_in_a_path_maybe_path_variants(
           text, hovered, 0, MAX_BACKGROUND_THREAD_PREFIX_WORDS)

advanced_maybe_path_variants(text, hovered, path_regexes) ==
    path_regex_variants(text, hovered, path_regexes)
    \o line_ends_in_a_path_maybe_path_variants(
           text, hovered, MAX_MAIN_THREAD_PREFIX_WORDS, MAX_BACKGROUND_THREAD_PREFIX_WORDS)

\* `let starts = word_regex().find_iter(&self.line[..self.hovered_word_range.end])`
exhaustive_starts(text, hovered) ==
    [i \in 1..Len(word_find_iter(SubSeq(text, 1, hovered.end))) |->
        word_find_iter(SubSeq(text, 1, hovered.end))[i].start]

\* the ends of the words found in line[hovered.start..], in the order found
exhaustive_ends(text, hovered) ==
    [i \in 1..Len(word_find_iter(SubSeq(text, hovered.start + 1, Len(text)))) |->
        hovered.start + word_find_iter(SubSeq(text, hovered.start + 1, Len(text)))[i].end]

RECURSIVE flat_map_starts(_, _, _)
flat_map_starts(starts, ends, i) ==
    IF i > Len(starts) THEN <<>>
    ELSE [j \in 1..Len(ends) |-> Rng(starts[i], ends[j])]
         \o flat_map_starts(starts, ends, i + 1)

\* terminal_view: the ends are collected and reversed for every start
exhaustive_maybe_path_variants(text, hovered) ==
    flat_map_starts(exhaustive_starts(text, hovered),
                    Reverse(exhaustive_ends(text, hovered)), 1)

\* terminal crate, terminal_path_hyperlinks.rs: the ends in the order found
terminal_exhaustive_maybe_path_variants(text, hovered) ==
    flat_map_starts(exhaustive_starts(text, hovered),
                    exhaustive_ends(text, hovered), 1)

\* `&line[path.clone()]` panics when the range ends before it starts
slice_panics(ranges) == \E i \in 1..Len(ranges) : ranges[i].start > ranges[i].end

\* the variants a tier yields, each with the range it was built from
variants_of(text, ranges) ==
    [i \in 1..Len(ranges) |->
        [range |-> ranges[i], variant |-> MaybePathVariant_new(text, ranges[i])]]

----------------------------------------------------------------------------
(* The terminal grid and grapheme clusters, which are not among the sources. *)
(* The logical line under the pointer is a sequence of cells, a cell holds    *)
(* the scalars of one grapheme cluster, a grid point is the index of a cell,  *)
(* and a Match is a pair of points, both inclusive. An element of a line is   *)
(* one scalar; offsets into a line count scalars.                             *)

\* a combining mark: a scalar that extends the cluster of the scalar before it
COMBINING_MARK == "U+0301"

RECURSIVE bounds_to_string(_, _, _)
\* Term::bounds_to_string(start, end): the text of the cells start..=end
bounds_to_string(cells, start, end) ==
    IF start > end THEN <<>>
    ELSE cells[start + 1] \o bounds_to_string(cells, start + 1, end)

\* Term::line_search_left: the first cell of the logical line
line_search_left(cells, point) == 0

\* Term::line_search_right: the last cell of the logical line
line_search_right(cells, point) == Len(cells) - 1

\* Point::add(term, Boundary::Grid, n), inside the grid
point_add(point, n) == point + n

\* Point::sub(term, Boundary::Grid, n), inside the grid
point_sub(point, n) == point - n

Match(start, end) == [start |-> start, end |-> end]

\* text.graphemes(true).count()
graphemes_count(text) ==
    Cardinality({i \in 1..Len(text) : i = 1 \/ text[i] # COMBINING_MARK})

----------------------------------------------------------------------------
(* terminal/src/terminal_maybe_path_like.rs: MaybePathLike *)

\* MaybePathLike::from_file_url
from_file_url(file_iri, file_iri_match) ==
    [line |-> file_iri, word_range |-> Rng(0, Len(file_iri)), word_match |-> file_iri_match]

\* Faulty variant: the word range counts cells where the line counts scalars
from_hovered_word_match_in_cells(cells, hovered) ==
    [line |-> bounds_to_string(cells, 0, Len(cells) - 1),
     word_range |-> Rng(hovered.start, hovered.end + 1),
     word_match |-> hovered]

\* MaybePathLike::from_hovered_word_match
from_hovered_word_match(cells, hovered) ==
    LET word == bounds_to_string(cells, hovered.start, hovered.end)
        line_start == line_search_left(cells, hovered.start)
        before == IF line_start = hovered.start THEN <<>>
                  ELSE bounds_to_string(cells, line_start, point_sub(hovered.start, 1))
        word_start == Len(before)
        word_end == Len(before \o word)
        line_end == line_search_right(cells, hovered.end)
        remainder == IF line_end = hovered.end THEN <<>>
                     ELSE bounds_to_string(cells, point_add(hovered.end, 1), line_end)
    IN [line |-> before \o word \o remainder,
        word_range |-> Rng(word_start, word_end),
        word_match |-> hovered]

\* Path::new(word).extension().is_some(): the file name has a `.` after its
\* first character
extension_is_some(word) ==
    LET comps == PathOf(word).comps
        name == comps[Len(comps)]
    IN /\ comps # <<>>
       /\ name \notin {<<".">>, <<".", ".">>}
       /\ \E i \in 2..Len(name) : name[i] = "."

\* MaybePathLike::looks_like_a_path_match
looks_like_a_path_match(text, range) ==
    \/ extension_is_some(Slice(text, range))
    \/ starts_with(Slice(text, range), ".")
    \/ \E i \in 1..Len(Slice(text, range)) : Slice(text, range)[i] \in MAIN_SEPARATORS

\* Faulty variant: the end moves with the start
match_from_text_range_rigid(text, hovered, hovered_match, target) ==
    LET start == IF target.start > hovered.start
                 THEN point_add(hovered_match.start,
                          graphemes_count(Slice(text, Rng(hovered.start, target.start))))
                 ELSE IF target.start < hovered.start
                 THEN point_sub(hovered_match.start,
                          graphemes_count(Slice(text, Rng(target.start, hovered.start))))
                 ELSE hovered_match.start
    IN Match(start, start + (hovered_match.end - hovered_match.start))

\* Faulty variant: the points move by the length of the text between, not by
\* its grapheme count
match_from_text_range_by_length(text, hovered, hovered_match, target) ==
    Match(hovered_match.start + (target.start - hovered.start),
          hovered_match.end + (target.end - hovered.end))

\* MaybePathLike::match_from_text_range
match_from_text_range(text, hovered, hovered_match, target) ==
    LET start == IF target.start > hovered.start
                 THEN point_add(hovered_match.start,
                          graphemes_count(Slice(text, Rng(hovered.start, target.start))))
                 ELSE IF target.start < hovered.start
                 THEN point_sub(hovered_match.start,
                          graphemes_count(Slice(text, Rng(target.start, hovered.start))))
                 ELSE hovered_match.start
        end == IF target.end > hovered.end
               THEN point_add(hovered_match.end,
                        graphemes_count(Slice(text, Rng(hovered.end, target.end))))
               ELSE IF target.end < hovered.end
               THEN point_sub(hovered_match.end,
                        graphemes_count(Slice(text, Rng(target.end, hovered.end))))
               ELSE hovered_match.end
    IN Match(start, end)

HoveredWord(word, matched) == [word |-> word, word_match |-> matched]

\* `path_regex_match(&self.line, &self.word_range, &Vec::new())`
best_heuristic_path_regexes == <<>>

\* MaybePathLike::best_heuristic_hovered_word
best_heuristic_hovered_word(text, hovered, hovered_match) ==
    LET surrounding_range == longest_surrounding_symbols_match(text, hovered)
        stripped_range == Rng(Unwrap(surrounding_range).start + 1,
                              Unwrap(surrounding_range).end - 1)
        path_range == path_regex_match(text, hovered, best_heuristic_path_regexes)
    IN IF IsSome(surrounding_range)
       THEN Some(HoveredWord(Slice(text, stripped_range),
                     match_from_text_range(text, hovered, hovered_match, stripped_range)))
       ELSE IF looks_like_a_path_match(text, hovered)
       THEN Some(HoveredWord(Slice(text, hovered), hovered_match))
       ELSE IF IsSome(path_range)
       THEN Some(HoveredWord(Slice(text, Unwrap(path_range)),
                     match_from_text_range(text, hovered, hovered_match, Unwrap(path_range))))
       ELSE None

----------------------------------------------------------------------------
(* Inputs: every line of at most MaxLen characters over Alphabet with every  *)
(* non-empty hovered range, and decorated lines                              *)
(*     [opener] [git diff prefix] body [row/column suffix] [closer]          *)
(* hovered as a whole or without their first and last character.             *)

MaxLen == 4

Alphabet == {"\"", "(", ")", "a", "/"}

ShortLines == UNION {[1..n -> Alphabet] : n \in 1..MaxLen}

Openers == {<<>>, <<"(">>, <<"[">>, <<"'">>}

Closers == {<<>>, <<")">>, <<"]">>, <<"'">>}

GitDiffPrefixes == {<<>>, <<"a", "/">>, <<"b", "\\">>}

Bodies ==
    {<<"x">>, <<"~">>, <<"~", "/", "x">>, <<"/", "x">>, <<"~", "x">>, <<"~", "\\", "x">>}

Suffixes == {<<>>, <<":", "4">>, <<":", "4", ":", "2">>, <<"(", "4", ",", "2", ")">>}

DecoratedLines ==
    {o \o g \o b \o s \o c :
        o \in Openers, g \in GitDiffPrefixes, b \in Bodies, s \in Suffixes, c \in Closers}

\* lines of blanks, colons and a letter
WordAlphabet == {"a", " ", ":"}

WordLines == UNION {[1..n -> WordAlphabet] : n \in 1..MaxLen}

MaxWords == 3

SentenceWords == {<<"a">>, <<"a", ":">>, <<"(", "a">>, <<"a", ")">>}

RECURSIVE JoinWords(_)
JoinWords(words) ==
    IF Len(words) = 1 THEN words[1]
    ELSE words[1] \o <<" ">> \o JoinWords(Tail(words))

\* lines of up to MaxWords words with one blank between them
Sentences == {JoinWords(ws) : ws \in UNION {[1..n -> SentenceWords] : n \in 1..MaxWords}}

\* every non-empty range of a short line; of a longer line the whole line,
\* the line without its first and last character, and each of its words
HoverRanges(text) ==
    IF Len(text) <= MaxLen
    THEN {Rng(s, e) : s \in 0..(Len(text) - 1), e \in 1..Len(text)} \ 
         {r \in {Rng(s, e) : s \in 0..(Len(text) - 1), e \in 1..Len(text)} : r.start >= r.end}
    ELSE {Rng(0, Len(text)), Rng(1, Len(text) - 1)}
         \cup {word_find_iter(text)[i] : i \in 1..Len(word_find_iter(text))}

\* the user's path_hyperlink_regexes
RegexLists == {<<>>, <<RunRegex("a")>>}

\* The roots and home directory the callers pass: [worktree_root, cwd] and home_dir
WORKTREE_ROOT == PathOf(<<"/", "r">>)

CWD == PathOf(<<"/", "c">>)

HOME_DIR == PathOf(<<"/", "h">>)

Roots == <<WORKTREE_ROOT, CWD>>

\* a relative directory of the worktree, as a prefix_to_strip
WORKTREE_DIR == PathOf(<<"a">>)

PrefixesToStrip == {None, Some(WORKTREE_ROOT), Some(WORKTREE_DIR)}

----------------------------------------------------------------------------
(* The state machine: a hover, then one candidate generator, then one        *)
(* projection of the variant it built.                                       *)

Init ==
    /\ line \in ShortLines \cup DecoratedLines \cup WordLines \cup Sentences
    /\ hovered_word_range \in HoverRanges(line)
    /\ pc = "hover"
    /\ surrounding = None
    /\ candidate = None
    /\ variant = None
    /\ prefix_to_strip = None
    /\ relative = <<>>
    /\ absolutized = <<>>
    /\ path_hyperlink_regexes = <<>>
    /\ default_variants = <<>>
    /\ advanced_variants = <<>>
    /\ exhaustive_variants = <<>>
    /\ term = <<>>
    /\ word_match = None
    /\ regexes_tried = <<>>
    /\ regex_match = None
    /\ hovered_word = None
    /\ text_range = None
    /\ text_match = None
    /\ navigation = "Default"
    /\ fs = <<>>
    /\ pulled = 0
    /\ queue = <<>>
    /\ probes = <<>>
    /\ cancelled = FALSE
    /\ open_target = None

\* longest_surrounding_symbols_match(&self.line, &self.hovered_word_range)
LongestSurroundingSymbolsMatch ==
    /\ pc = "hover"
    /\ surrounding' = longest_surrounding_symbols_match(line, hovered_word_range)
    /\ pc' = "scanned"
    /\ UNCHANGED <<line, hovered_word_range, candidate, variant, prefix_to_strip,
                   relative, absolutized>>
    /\ UNCHANGED <<tier_vars, like_vars, resolve_vars>>

\* The first candidate of default_maybe_path_variants: the hovered word
HoveredWordVariant ==
    /\ pc = "hover"
    /\ candidate' = Some(hovered_word_range)
    /\ variant' = Some(MaybePathVariant_new(line, hovered_word_range))
    /\ pc' = "variant"
    /\ UNCHANGED <<line, hovered_word_range, surrounding, prefix_to_strip,
                   relative, absolutized>>
    /\ UNCHANGED <<tier_vars, like_vars, resolve_vars>>

\* The range longest_surrounding_symbols_variants hands to MaybePathVariant::new
stripped_interior(surrounding_range) ==
    Rng(surrounding_range.start + 1, surrounding_range.end - 1)

\* longest_surrounding_symbols_variants
LongestSurroundingSymbolsVariants ==
    /\ pc = "hover"
    /\ LET found == longest_surrounding_symbols_match(line, hovered_word_range)
       IN /\ surrounding' = found
          /\ IF IsSome(found) /\ Unwrap(found) # hovered_word_range
             THEN /\ candidate' = Some(stripped_interior(Unwrap(found)))
                  /\ variant' = Some(MaybePathVariant_new(line, stripped_interior(Unwrap(found))))
                  /\ pc' = "variant"
             ELSE /\ pc' = "no_variant"
                  /\ UNCHANGED <<candidate, variant>>
    /\ UNCHANGED <<line, hovered_word_range, prefix_to_strip, relative, absolutized>>
    /\ UNCHANGED <<tier_vars, like_vars, resolve_vars>>

\* MaybePathVariant::relative_variations
RelativeVariations(prefix) ==
    /\ pc = "variant"
    /\ prefix_to_strip' = prefix
    /\ relative' = relative_variations(Unwrap(variant), line, prefix)
    /\ pc' = "relative"
    /\ UNCHANGED <<line, hovered_word_range, surrounding, candidate, variant, absolutized>>
    /\ UNCHANGED <<tier_vars, like_vars, resolve_vars>>

\* MaybePathVariant::absolutized_variations
AbsolutizedVariations ==
    /\ pc = "variant"
    /\ absolutized' = absolutized_variations(Unwrap(variant), line, Roots, HOME_DIR)
    /\ pc' = "absolutized"
    /\ UNCHANGED <<line, hovered_word_range, surrounding, candidate, variant,
                   prefix_to_strip, relative>>
    /\ UNCHANGED <<tier_vars, like_vars, resolve_vars>>

\* MaybePath::default_maybe_path_variants
DefaultMaybePathVariants ==
    /\ pc = "hover"
    /\ default_variants' =
           variants_of(line, default_maybe_path_variants(line, hovered_word_range))
    /\ pc' = "default"
    /\ UNCHANGED <<line, hovered_word_range, variant_vars, resolve_vars, path_hyperlink_regexes,
                   advanced_variants, exhaustive_variants, like_vars>>

\* MaybePath::advanced_maybe_path_variants; path_hyperlink_regexes is the list
\* from_hovered_maybe_path stored, which only this method reads
AdvancedMaybePathVariants(regexes) ==
    /\ pc = "default"
    /\ path_hyperlink_regexes' = regexes
    /\ advanced_variants' =
           variants_of(line, advanced_maybe_path_variants(line, hovered_word_range, regexes))
    /\ pc' = "advanced"
    /\ UNCHANGED <<line, hovered_word_range, variant_vars, resolve_vars, default_variants,
                   exhaustive_variants, like_vars>>

\* MaybePath::exhaustive_maybe_path_variants (terminal_view)
ExhaustiveMaybePathVariants ==
    /\ pc = "advanced"
    /\ IF slice_panics(exhaustive_maybe_path_variants(line, hovered_word_range))
       THEN /\ pc' = "panic"
            /\ UNCHANGED exhaustive_variants
       ELSE /\ pc' = "exhaustive"
            /\ exhaustive_variants' =
                   variants_of(line, exhaustive_maybe_path_variants(line, hovered_word_range))
    /\ UNCHANGED <<line, hovered_word_range, variant_vars, resolve_vars, path_hyperlink_regexes,
                   default_variants, advanced_variants, like_vars>>

\* MaybePath::exhaustive_maybe_path_variants (terminal crate, terminal_path_hyperlinks.rs)
TerminalExhaustiveMaybePathVariants ==
    /\ pc = "hover"
    /\ IF slice_panics(terminal_exhaustive_maybe_path_variants(line, hovered_word_range))
       THEN /\ pc' = "panic"
            /\ UNCHANGED exhaustive_variants
       ELSE /\ pc' = "terminal_exhaustive"
            /\ exhaustive_variants' =
                   variants_of(line,
                       terminal_exhaustive_maybe_path_variants(line, hovered_word_range))
    /\ UNCHANGED <<line, hovered_word_range, variant_vars, resolve_vars, path_hyperlink_regexes,
                   default_variants, advanced_variants, like_vars>>

Next ==
    \/ LongestSurroundingSymbolsMatch
    \/ HoveredWordVariant
    \/ LongestSurroundingSymbolsVariants
    \/ \E prefix \in PrefixesToStrip : RelativeVariations(prefix)
    \/ AbsolutizedVariations
    \/ DefaultMaybePathVariants
    \/ \E regexes \in RegexLists : AdvancedMaybePathVariants(regexes)
    \/ ExhaustiveMaybePathVariants
    \/ TerminalExhaustiveMaybePathVariants

Spec == Init /\ [][Next]_vars

----------------------------------------------------------------------------
(* MaybePathLike as a state machine: a hovered Match on the terminal line,    *)
(* the MaybePathLike built from it, then one of its operations.               *)

MaxCells == 3

\* a wide character: one grapheme displayed over two cells
WIDE_CHAR == <<"W">>

\* the second cell of a wide character, which holds no text
WIDE_CHAR_SPACER == <<>>

CellKinds ==
    {<<"a">>, <<" ">>, <<":">>, <<"\"">>, <<"/">>, <<"a", COMBINING_MARK>>,
     WIDE_CHAR, WIDE_CHAR_SPACER}

\* a spacer follows every wide character and nothing else
WellFormedGrid(cells) ==
    \A i \in 1..Len(cells) :
        /\ cells[i] = WIDE_CHAR => (i < Len(cells) /\ cells[i + 1] = WIDE_CHAR_SPACER)
        /\ cells[i] = WIDE_CHAR_SPACER => (i > 1 /\ cells[i - 1] = WIDE_CHAR)

Grids ==
    {cells \in UNION {[1..n -> CellKinds] : n \in 1..MaxCells} : WellFormedGrid(cells)}

Matches(cells) ==
    {m \in {Match(s, e) : s \in 0..(Len(cells) - 1), e \in 0..(Len(cells) - 1)} :
        m.start <= m.end}

TargetRanges(text) ==
    {r \in {Rng(s, e) : s \in 0..Len(text), e \in 0..Len(text)} : r.start < r.end}

LikeRegexLists ==
    {<<>>,
     <<ROW_COLUMN_DESCRIPTION_REGEX>>,
     <<RunRegex("a")>>,
     <<RunRegex("/"), RunRegex("a")>>,
     <<AltRegex(":", "a"), RunRegex("a")>>}

InitLike ==
    /\ term \in Grids
    /\ word_match \in {Some(m) : m \in Matches(term)}
    /\ pc = "term"
    /\ line = <<>>
    /\ hovered_word_range = Rng(0, 0)
    /\ surrounding = None
    /\ candidate = None
    /\ variant = None
    /\ prefix_to_strip = None
    /\ relative = <<>>
    /\ absolutized = <<>>
    /\ path_hyperlink_regexes = <<>>
    /\ default_variants = <<>>
    /\ advanced_variants = <<>>
    /\ exhaustive_variants = <<>>
    /\ regexes_tried = <<>>
    /\ regex_match = None
    /\ hovered_word = None
    /\ text_range = None
    /\ text_match = None
    /\ navigation = "Default"
    /\ fs = <<>>
    /\ pulled = 0
    /\ queue = <<>>
    /\ probes = <<>>
    /\ cancelled = FALSE
    /\ open_target = None

\* MaybePathLike::from_hovered_word_match(term, word_match)
FromHoveredWordMatch ==
    /\ pc = "term"
    /\ line' = from_hovered_word_match(term, Unwrap(word_match)).line
    /\ hovered_word_range' = from_hovered_word_match(term, Unwrap(word_match)).word_range
    /\ pc' = "like"
    /\ UNCHANGED <<variant_vars, resolve_vars, tier_vars, like_vars>>

\* MaybePathLike::from_file_url(file_iri, file_iri_match), the IRI being the
\* text under the match
FromFileUrl ==
    /\ pc = "term"
    /\ LET file_iri == bounds_to_string(term, Unwrap(word_match).start, Unwrap(word_match).end)
       IN /\ line' = from_file_url(file_iri, Unwrap(word_match)).line
          /\ hovered_word_range' = from_file_url(file_iri, Unwrap(word_match)).word_range
    /\ pc' = "file_url"
    /\ UNCHANGED <<variant_vars, resolve_vars, tier_vars, like_vars>>

\* path_regex_match(&line, &word_range, path_regexes)
PathRegexMatch(regexes) ==
    /\ pc = "like"
    /\ regexes_tried' = regexes
    /\ regex_match' = path_regex_match(line, hovered_word_range, regexes)
    /\ pc' = "regex"
    /\ UNCHANGED <<line, hovered_word_range, variant_vars, resolve_vars, tier_vars, term, word_match,
                   hovered_word, text_range, text_match>>

\* MaybePathLike::best_heuristic_hovered_word
BestHeuristicHoveredWord ==
    /\ pc = "like"
    /\ hovered_word' =
           best_heuristic_hovered_word(line, hovered_word_range, Unwrap(word_match))
    /\ pc' = "best"
    /\ UNCHANGED <<line, hovered_word_range, variant_vars, resolve_vars, tier_vars, term, word_match,
                   regexes_tried, regex_match, text_range, text_match>>

\* MaybePathLike::match_from_text_range(term, text_range)
MatchFromTextRange(target) ==
    /\ pc = "like"
    /\ text_range' = Some(target)
    /\ text_match' =
           Some(match_from_text_range(line, hovered_word_range, Unwrap(word_match), target))
    /\ pc' = "matched"
    /\ UNCHANGED <<line, hovered_word_range, variant_vars, resolve_vars, tier_vars, term, word_match,
                   regexes_tried, regex_match, hovered_word>>

NextLike ==
    \/ FromHoveredWordMatch
    \/ FromFileUrl
    \/ \E regexes \in LikeRegexLists : PathRegexMatch(regexes)
    \/ BestHeuristicHoveredWord
    \/ \E target \in TargetRanges(line) : MatchFromTextRange(target)

SpecLike == InitLike /\ [][NextLike]_vars

----------------------------------------------------------------------------
(* Resolution: the candidates of the tiers are probed against the filesystem *)
(* in order and the first that exists is the open target. The probe loop is  *)
(* actual_open_target of test_maybe_path; the resolver that takes the        *)
(* variants one by one, can be cancelled and honours the navigation setting  *)
(* is not among the sources and follows its description.                     *)

RECURSIVE normalize_components(_, _)
normalize_components(comps, done) ==
    IF comps = <<>> THEN done
    ELSE IF Head(comps) = <<".">> THEN normalize_components(Tail(comps), done)
    ELSE IF Head(comps) = <<".", ".">>
    THEN normalize_components(Tail(comps),
             IF done = <<>> THEN <<>> ELSE SubSeq(done, 1, Len(done) - 1))
    ELSE normalize_components(Tail(comps), Append(done, Head(comps)))

\* fs::normalize_path: `.` is dropped and `..` removes the component before it
normalize_path(path) ==
    [has_root |-> path.has_root, comps |-> normalize_components(path.comps, <<>>)]

\* fs.metadata(path): Ok(Some(metadata)), Ok(None) or Err
metadata(files, path) ==
    IF path \in DOMAIN files THEN files[path] ELSE "Ok(None)"

\* `if let Ok(Some(_metadata)) = fs.metadata(&fs::normalize_path(&normalized_path)).await`
probe_succeeds(files, maybe_path_with_position) ==
    metadata(files, normalize_path(normalize_path(maybe_path_with_position.path)))
        = "Ok(Some)"

RECURSIVE open_target_stopping_at_error(_, _, _)
open_target_stopping_at_error(candidates, files, i) ==
    IF i > Len(candidates) THEN None
    ELSE IF probe_succeeds(files, candidates[i]) THEN Some(candidates[i])
    ELSE IF metadata(files, normalize_path(candidates[i].path)) = "Err" THEN None
    ELSE open_target_stopping_at_error(candidates, files, i + 1)

\* Faulty variant: an error of metadata ends the loop
actual_open_target_or_error(candidates, files) ==
    open_target_stopping_at_error(candidates, files, 1)

RECURSIVE open_target_from(_, _, _)
\* `for maybe_path_with_position in &actual_absolutized { .. return Some(..) } None`
open_target_from(candidates, files, i) ==
    IF i > Len(candidates) THEN None
    ELSE IF probe_succeeds(files, candidates[i]) THEN Some(candidates[i])
    ELSE open_target_from(candidates, files, i + 1)

\* test_maybe_path::actual_open_target
actual_open_target(candidates, files) == open_target_from(candidates, files, 1)

RECURSIVE actual_absolutized(_, _, _)
\* `variants().map(|v| v.absolutized_variations(roots, &home_dir)).flatten()`,
\* from the i-th range on
actual_absolutized(text, ranges, i) ==
    IF i > Len(ranges) THEN <<>>
    ELSE absolutized_variations(MaybePathVariant_new(text, ranges[i]), text, Roots, HOME_DIR)
         \o actual_absolutized(text, ranges, i + 1)

\* the ranges of the tiers a resolution runs, in order: Default, then
\* Advanced, then Exhaustive, as far as the setting allows
resolution_ranges(text, hovered, setting, regexes) ==
    default_maybe_path_variants(text, hovered)
    \o (IF setting \in {"Advanced", "Exhaustive"}
        THEN advanced_maybe_path_variants(text, hovered, regexes)
        ELSE <<>>)
    \o (IF setting = "Exhaustive"
        THEN exhaustive_maybe_path_variants(text, hovered)
        ELSE <<>>)

\* Faulty variant: the token is not looked at
token_ignored(signal) == TRUE

\* the check of the cancellation token before a variant is taken and before
\* a probe is issued
token_allows(signal) == ~signal

ResolveLines ==
    {<<"(", "/", "x", " ", "y", ")">>,
     <<"(", "/", "x", ")">>,
     <<"/", "x", ":", "4">>,
     <<"a">>,
     <<"a", " ", "y">>}

\* a resolution starts from a hovered word
ResolveHovers(text) == {word_find_iter(text)[i] : i \in 1..Len(word_find_iter(text))}

\* the paths the filesystem may hold or fail on
FsPaths ==
    {PathOf(<<"/", "x", " ", "y">>),
     PathOf(<<"/", "x">>),
     PathOf(<<"/", "r", "/", "(", "/", "x">>),
     PathOf(<<"/", "r", "/", "a">>)}

FsAnswers == {"Ok(Some)", "Ok(None)", "Err"}

Navigations == {"Default", "Advanced", "Exhaustive"}

\* the ranges of the running resolution
Ranges == resolution_ranges(line, hovered_word_range, navigation, path_hyperlink_regexes)

InitResolve ==
    /\ line \in ResolveLines
    /\ hovered_word_range \in ResolveHovers(line)
    /\ navigation \in Navigations
    /\ fs \in [FsPaths -> FsAnswers]
    /\ pc = "resolving"
    /\ pulled = 0
    /\ queue = <<>>
    /\ probes = <<>>
    /\ cancelled = FALSE
    /\ open_target = None
    /\ surrounding = None
    /\ candidate = None
    /\ variant = None
    /\ prefix_to_strip = None
    /\ relative = <<>>
    /\ absolutized = <<>>
    /\ path_hyperlink_regexes = <<>>
    /\ default_variants = <<>>
    /\ advanced_variants = <<>>
    /\ exhaustive_variants = <<>>
    /\ term = <<>>
    /\ word_match = None
    /\ regexes_tried = <<>>
    /\ regex_match = None
    /\ hovered_word = None
    /\ text_range = None
    /\ text_match = None

\* the resolver takes the next variant of the tiers and absolutizes it
TakeVariant ==
    /\ pc = "resolving"
    /\ token_allows(cancelled)
    /\ queue = <<>>
    /\ pulled < Len(Ranges)
    /\ pulled' = pulled + 1
    /\ queue' = absolutized_variations(MaybePathVariant_new(line, Ranges[pulled + 1]),
                                       line, Roots, HOME_DIR)
    /\ UNCHANGED <<line, hovered_word_range, pc, variant_vars, tier_vars, like_vars,
                   navigation, fs, probes, cancelled, open_target>>

\* the resolver asks metadata for the next candidate and suspends
IssueProbe ==
    /\ pc = "resolving"
    /\ token_allows(cancelled)
    /\ queue # <<>>
    /\ probes' = Append(probes, Head(queue).path)
    /\ pc' = "in_flight"
    /\ UNCHANGED <<line, hovered_word_range, variant_vars, tier_vars, like_vars,
                   navigation, fs, pulled, queue, cancelled, open_target>>

\* metadata answers: the first candidate that exists is the open target, a
\* miss or an error goes on to the next candidate, and the answer to a
\* cancelled resolution is dropped
ProbeCompletes ==
    /\ pc = "in_flight"
    /\ IF ~token_allows(cancelled)
       THEN /\ pc' = "discarded"
            /\ UNCHANGED <<queue, open_target>>
       ELSE IF probe_succeeds(fs, Head(queue))
       THEN /\ open_target' = Some(Head(queue))
            /\ pc' = "resolved"
            /\ UNCHANGED queue
       ELSE /\ queue' = Tail(queue)
            /\ pc' = "resolving"
            /\ UNCHANGED open_target
    /\ UNCHANGED <<line, hovered_word_range, variant_vars, tier_vars, like_vars,
                   navigation, fs, pulled, probes, cancelled>>

\* the tiers are exhausted and nothing was found
NoHit ==
    /\ pc = "resolving"
    /\ token_allows(cancelled)
    /\ queue = <<>>
    /\ pulled = Len(Ranges)
    /\ pc' = "resolved"
    /\ UNCHANGED <<line, hovered_word_range, variant_vars, tier_vars, like_vars,
                   resolve_vars>>

\* a newer hover or a change of the terminal content cancels the resolution
Cancel ==
    /\ pc \in {"resolving", "in_flight"}
    /\ ~cancelled
    /\ cancelled' = TRUE
    /\ UNCHANGED <<line, hovered_word_range, pc, variant_vars, tier_vars, like_vars,
                   navigation, fs, pulled, queue, probes, open_target>>

\* the resolver finds the token set and stops
Discard ==
    /\ pc = "resolving"
    /\ ~token_allows(cancelled)
    /\ pc' = "discarded"
    /\ UNCHANGED <<line, hovered_word_range, variant_vars, tier_vars, like_vars,
                   resolve_vars>>

NextResolve ==
    \/ TakeVariant
    \/ IssueProbe
    \/ ProbeCompletes
    \/ NoHit
    \/ Cancel
    \/ Discard

SpecResolve == InitResolve /\ [][NextResolve]_vars

----------------------------------------------------------------------------
(* Vocabulary of the properties, stated on the characters of the line *)

CharAt(text, offset) == text[offset + 1]

\* the interval of pair k: first opener .. last closer, inclusive
PairInterval(text, k) ==
    Rng(Min(IndicesOf(text, COMMON_PATH_SURROUNDING_SYMBOLS[k][1])) - 1,
        Max(IndicesOf(text, COMMON_PATH_SURROUNDING_SYMBOLS[k][2])))

\* the pairs whose interval is kept for the word
KeptPairs(text, word) ==
    {k \in 1..Len(COMMON_PATH_SURROUNDING_SYMBOLS) :
        /\ IndicesOf(text, COMMON_PATH_SURROUNDING_SYMBOLS[k][1]) # {}
        /\ IndicesOf(text, COMMON_PATH_SURROUNDING_SYMBOLS[k][2]) # {}
        /\ PairInterval(text, k).start < PairInterval(text, k).end - 1
        /\ PairInterval(text, k).start <= word.start
        /\ word.start < PairInterval(text, k).end
        /\ PairInterval(text, k).start <= word.end - 1
        /\ word.end - 1 < PairInterval(text, k).end}

IntervalLen(text, k) == PairInterval(text, k).end - PairInterval(text, k).start

LongestKeptPairs(text, word) ==
    {k \in KeptPairs(text, word) :
        \A j \in KeptPairs(text, word) : IntervalLen(text, j) <= IntervalLen(text, k)}

\* two kept intervals of the same, longest, length that start at different offsets
TiedIntervals(text, word) ==
    \E j, k \in LongestKeptPairs(text, word) :
        PairInterval(text, j).start # PairInterval(text, k).start

\* the longest kept interval, ties going to the interval that starts earliest
LongestEarliestOnLine(text, word) ==
    IF KeptPairs(text, word) = {} THEN None
    ELSE Some(PairInterval(text,
            CHOOSE k \in LongestKeptPairs(text, word) :
                \A j \in LongestKeptPairs(text, word) :
                    PairInterval(text, k).start <= PairInterval(text, j).start))

\* the longest kept interval, ties going to the pair listed first
LongestFirstListed(text, word) ==
    IF KeptPairs(text, word) = {} THEN None
    ELSE Some(PairInterval(text, Min(LongestKeptPairs(text, word))))

\* C1 as claimed: longest_surrounding_symbols_match returns the longest kept
\* interval and, of two kept intervals of the same length, the one that starts
\* earliest on the line; None when no pair qualifies.
C1_TiesEarliestOnLine ==
    pc = "scanned" => surrounding = LongestEarliestOnLine(line, hovered_word_range)

\* C1 amended: longest_surrounding_symbols_match returns the longest kept
\* interval (first opener .. last closer, opener before closer, containing
\* word.start and word.end-1) and, of two kept intervals of the same length,
\* the one whose pair is listed first in ("" '' [] ()); None when no pair
\* qualifies.
C1_LongestFirstListed ==
    pc = "scanned" => surrounding = LongestFirstListed(line, hovered_word_range)

C1_Witness ==
    /\ pc = "scanned"
    /\ IsSome(surrounding)
    /\ TiedIntervals(line, hovered_word_range)

\* C2 as claimed: whenever a range [s,e) is returned, the stripped interior
\* [s+1,e-1) covers the whole hovered word range.
C2_InteriorCoversWord ==
    (pc = "scanned" /\ IsSome(surrounding)) =>
        /\ Unwrap(surrounding).start + 1 <= hovered_word_range.start
        /\ hovered_word_range.end <= Unwrap(surrounding).end - 1

\* C2 amended: whenever a range [s,e) is returned, [s,e) with its two symbols
\* covers the whole hovered word range (s <= word.start and word.end <= e) and
\* the interior is a range (s+1 <= e-1); the stripped interior [s+1,e-1) covers
\* the hovered word range when the word neither starts at the opener nor ends
\* at the closer.
C2_PairCoversWord ==
    (pc = "scanned" /\ IsSome(surrounding)) =>
        LET s == Unwrap(surrounding).start
            e == Unwrap(surrounding).end
        IN /\ s <= hovered_word_range.start
           /\ hovered_word_range.end <= e
           /\ s + 1 <= e - 1
           /\ (hovered_word_range.start # s /\ hovered_word_range.end # e) =>
                 (s + 1 <= hovered_word_range.start /\ hovered_word_range.end <= e - 1)

C2_Witness ==
    /\ pc = "scanned"
    /\ IsSome(surrounding)
    /\ Unwrap(surrounding).start = hovered_word_range.start
    /\ hovered_word_range.end < Unwrap(surrounding).end

----------------------------------------------------------------------------
(* MaybePathVariant::new *)

\* the slice is longer than 2 bytes and opens and closes with one of the pairs
Wrapped(text, r) ==
    /\ r.end - r.start > 2
    /\ <<CharAt(text, r.start), CharAt(text, r.end - 1)>> \in
           {<<"\"", "\"">>, <<"'", "'">>, <<"[", "]">>, <<"(", ")">>}

\* the path after any symbol strip
PostStrip(text, r) == IF Wrapped(text, r) THEN Rng(r.start + 1, r.end - 1) ELSE r

\* the slice is longer than 2 bytes, is not wrapped, and starts with a/ a\ b/ or b\
GitDiffCase(text, r) ==
    /\ r.end - r.start > 2
    /\ ~Wrapped(text, r)
    /\ CharAt(text, r.start) \in {"a", "b"}
    /\ CharAt(text, r.start + 1) \in {"/", "\\"}

Built == pc = "variant"

Base == Unwrap(candidate)

V == Unwrap(variant)

HasPositioned == IsSome(V.positioned_variation)

Positioned == Unwrap(V.positioned_variation)

C4_OriginalFirst ==
    Built =>
        /\ V.variations[1] = Base
        /\ \A i \in 1..(Len(V.variations) - 1) :
               RangeLen(V.variations[i]) >= RangeLen(V.variations[i + 1])

\* C5: absolutize_home_dir is false exactly when a git-diff prefix was
\* stripped, which is exactly when the slice is longer than 2 bytes, no pair
\* was stripped, and the slice starts with a or b followed by / or \; then the
\* variations are the original followed by [start+2, end); otherwise there is
\* no git-diff variation; a stripped and a git-diff variation never coexist.
C5_GitDiffExactly ==
    Built =>
        /\ V.absolutize_home_dir = ~GitDiffCase(line, Base)
        /\ GitDiffCase(line, Base) =>
               V.variations = <<Base, Rng(Base.start + 2, Base.end)>>
        /\ ~GitDiffCase(line, Base) =>
               V.variations = IF Wrapped(line, Base)
                              THEN <<PostStrip(line, Base), Base>>
                              ELSE <<Base>>

C5_Witness ==
    /\ Built
    /\ GitDiffCase(line, Base)
    /\ CharAt(line, Base.start) = "b"
    /\ CharAt(line, Base.start + 1) = "\\"
    /\ ~V.absolutize_home_dir

\* C6: a positioned variation starts at the start of the path after any symbol
\* strip, never at start+2 of a git-diff prefixed path: `a/x:4:2` yields the
\* positioned path `a/x` with row 4 and column 2.
C6_PositionKeepsGitPrefix ==
    (Built /\ HasPositioned) =>
        /\ Positioned.range.start = PostStrip(line, Base).start
        /\ GitDiffCase(line, Base) => Positioned.range.start # V.variations[2].start
        /\ Slice(line, Base) = <<"a", "/", "x", ":", "4", ":", "2">> =>
               /\ Slice(line, Positioned.range) = <<"a", "/", "x">>
               /\ Positioned.position.row = 4
               /\ Positioned.position.column = Some(2)

C6_Witness ==
    /\ Built
    /\ HasPositioned
    /\ GitDiffCase(line, Base)
    /\ Slice(line, Base) = <<"a", "/", "x", ":", "4", ":", "2">>

----------------------------------------------------------------------------
(* The projections of a variant *)

Projected == pc \in {"relative", "absolutized"}

\* the candidates of the projection computed last
Candidates == IF pc = "relative" THEN relative ELSE absolutized

\* the text of a range names a relative path: it does not start with `/`
RelativeText(text, r) == r.start >= r.end \/ CharAt(text, r.start) # "/"

\* C7: a variant carries at most one positioned variation, present only with a
\* row/column suffix; positioned.range.end + suffix_length is the end of the
\* base range after any symbol strip, so hyperlink_range() of a positioned
\* candidate is exactly the post-strip path range and lies inside the base
\* range; hyperlink_range() of a candidate without position is its range.
C7_HyperlinkRange ==
    /\ (Built /\ HasPositioned) =>
           /\ IsSome(parse_row_column(Slice(line, PostStrip(line, Base))).row)
           /\ Positioned.range.end + Positioned.position.suffix_length
                  = PostStrip(line, Base).end
    /\ Projected =>
           \A i \in 1..Len(Candidates) :
               IF IsSome(Candidates[i].position)
               THEN /\ HasPositioned
                    /\ Candidates[i].range = Positioned.range
                    /\ Candidates[i].position = Some(Positioned.position)
                    /\ hyperlink_range(Candidates[i]) = PostStrip(line, Base)
                    /\ IsSubrange(hyperlink_range(Candidates[i]), Base)
               ELSE hyperlink_range(Candidates[i]) = Candidates[i].range

C7_Witness ==
    /\ Projected
    /\ Wrapped(line, Base)
    /\ \E i \in 1..Len(Candidates) :
           /\ IsSome(Candidates[i].position)
           /\ hyperlink_range(Candidates[i]) # Candidates[i].range

\* the (range, position) pairs of a variant: the positioned one, then the
\* variations in their stored order
PositionedFirst ==
    (IF HasPositioned
     THEN << <<Positioned.range, Some(Positioned.position)>> >>
     ELSE <<>>)
    \o [i \in 1..Len(V.variations) |-> <<V.variations[i], None>>]

IsRelativePair(p) == RelativeText(line, p[1])

\* C8: relative_variations yields the positioned variation (when present)
\* before every other variation, then the variations in their stored order, and
\* yields an entry only for variations whose text is a relative path.
C8_PositionedFirstRelativeOnly ==
    pc = "relative" =>
        /\ [i \in 1..Len(relative) |-> <<relative[i].range, relative[i].position>>]
               = SelectSeq(PositionedFirst, IsRelativePair)
        /\ \A i \in 1..Len(relative) : ~relative[i].path.has_root

C8_Witness ==
    /\ pc = "relative"
    /\ HasPositioned
    /\ Len(relative) >= 2
    /\ IsSome(relative[1].position)
    /\ Len(relative) < Len(PositionedFirst)

\* the candidates absolutized_variations yields for one variation
CandidatesOf(r, position) ==
    LET Mine(c) == c.range = r /\ c.position = position
    IN SelectSeq(absolutized, Mine)

\* path p lies under directory dir
Under(p, dir) ==
    /\ p.has_root = dir.has_root
    /\ Len(p.comps) >= Len(dir.comps)
    /\ SubSeq(p.comps, 1, Len(dir.comps)) = dir.comps

RootJoined(root, text) ==
    [has_root |-> TRUE, comps |-> root.comps \o PathOf(text).comps]

\* what absolutize yields for one variation
AbsolutizeYields(r, position) ==
    LET mine == CandidatesOf(r, position)
        text == Slice(line, r)
    IN IF ~RelativeText(line, r)
       THEN /\ Len(mine) = 1
            /\ mine[1].path = PathOf(text)
       ELSE /\ Len(mine) \in {Len(Roots), Len(Roots) + 1}
            /\ \A i \in 1..Len(Roots) : mine[i].path = RootJoined(Roots[i], text)
            /\ Len(mine) = Len(Roots) + 1 =>
                   Under(mine[Len(mine)].path, HOME_DIR)

\* C9: for one variation, absolutize yields exactly the path itself when the
\* variation's path is absolute; otherwise one root-joined candidate per root
\* in the caller's root order, followed by at most one home-joined candidate;
\* every candidate carries the variation's range and the position passed in.
C9_AbsolutizeOneVariation ==
    pc = "absolutized" =>
        /\ \A i \in 1..Len(PositionedFirst) :
               AbsolutizeYields(PositionedFirst[i][1], PositionedFirst[i][2])
        /\ \A i \in 1..Len(absolutized) :
               \E j \in 1..Len(PositionedFirst) :
                   /\ absolutized[i].range = PositionedFirst[j][1]
                   /\ absolutized[i].position = PositionedFirst[j][2]

C9_Witness ==
    /\ pc = "absolutized"
    /\ \E i, j \in 1..Len(PositionedFirst) :
           /\ ~RelativeText(line, PositionedFirst[i][1])
           /\ Len(CandidatesOf(PositionedFirst[i][1], PositionedFirst[i][2])) = 1
           /\ RelativeText(line, PositionedFirst[j][1])
           /\ Len(CandidatesOf(PositionedFirst[j][1], PositionedFirst[j][2])) = Len(Roots)

\* C10: no candidate of a variant whose git-diff prefix was stripped is
\* home-expanded: its absolutized variations are the root-joined forms (or
\* the absolute path itself) of each variation and none lies under home_dir;
\* `a/~/x` gives the root-joined forms of `a/~/x` and `~/x` only.
C10_NoHomeAfterGitDiff ==
    (pc = "absolutized" /\ GitDiffCase(line, Base)) =>
        /\ \A i \in 1..Len(absolutized) :
               ~Under(absolutized[i].path, HOME_DIR)
        /\ \A i \in 1..Len(PositionedFirst) :
               Len(CandidatesOf(PositionedFirst[i][1], PositionedFirst[i][2])) <= Len(Roots)
        /\ Slice(line, Base) = <<"a", "/", "~", "/", "x">> =>
               [i \in 1..Len(absolutized) |-> absolutized[i].path] =
                   << RootJoined(WORKTREE_ROOT, <<"a", "/", "~", "/", "x">>),
                      RootJoined(CWD, <<"a", "/", "~", "/", "x">>),
                      RootJoined(WORKTREE_ROOT, <<"~", "/", "x">>),
                      RootJoined(CWD, <<"~", "/", "x">>) >>

C10_Witness ==
    /\ pc = "absolutized"
    /\ GitDiffCase(line, Base)
    /\ Slice(line, V.variations[2]) = <<"~", "/", "x">>
    /\ Len(absolutized) = 4

----------------------------------------------------------------------------
(* Home expansion *)

\* the text begins with `~/` or `~\`
BeginsTildeSeparator(text) ==
    Len(text) >= 2 /\ text[1] = "~" /\ text[2] \in MAIN_SEPARATORS

\* the first component of the text is `~`: the text is `~` or begins with `~/`
TildeComponent(text) ==
    Len(text) >= 1 /\ text[1] = "~" /\ (Len(text) = 1 \/ text[2] = "/")

\* the candidates of one variation include a home-joined one
HomeJoined(r, position) ==
    /\ RelativeText(line, r)
    /\ Len(CandidatesOf(r, position)) = Len(Roots) + 1

\* the home-joined candidate of one variation
HomeCandidate(r, position) == CandidatesOf(r, position)[Len(Roots) + 1]

\* C11 as claimed: absolutize yields a home-joined candidate if and only if
\* absolutize_home_dir is true and the variation's text begins with `~/` or
\* `~\`; a variation that is just `~` yields none.
C11_HomeIffTildeSeparator ==
    pc = "absolutized" =>
        \A i \in 1..Len(PositionedFirst) :
            HomeJoined(PositionedFirst[i][1], PositionedFirst[i][2])
                <=> (V.absolutize_home_dir
                     /\ BeginsTildeSeparator(Slice(line, PositionedFirst[i][1])))

\* C11 amended: absolutize yields a home-joined candidate if and only if
\* absolutize_home_dir is true and the first component of the variation's
\* path is `~`, that is the text is just `~` or begins with `~/`; a text that
\* begins with `~\` or with `~` followed by other characters yields none; the
\* candidate's path is home_dir joined with the components after the `~`
\* (home_dir itself for a lone `~`).
C11_HomeIffTildeComponent ==
    pc = "absolutized" =>
        \A i \in 1..Len(PositionedFirst) :
            LET r == PositionedFirst[i][1]
                position == PositionedFirst[i][2]
                text == Slice(line, r)
            IN /\ HomeJoined(r, position)
                     <=> (V.absolutize_home_dir /\ TildeComponent(text))
               /\ HomeJoined(r, position) =>
                     HomeCandidate(r, position).path =
                         [has_root |-> TRUE,
                          comps |-> HOME_DIR.comps
                                    \o PathOf(SubSeq(text, 3, Len(text))).comps]

C11_Witness ==
    /\ pc = "absolutized"
    /\ \E i \in 1..Len(PositionedFirst) :
           /\ Slice(line, PositionedFirst[i][1]) = <<"~">>
           /\ HomeJoined(PositionedFirst[i][1], PositionedFirst[i][2])
           /\ HomeCandidate(PositionedFirst[i][1], PositionedFirst[i][2]).path = HOME_DIR

----------------------------------------------------------------------------
(* The tiers of MaybePath *)

RangesOf(variants) == [i \in 1..Len(variants) |-> variants[i].range]

\* the hovered range is one of the words of the line
HoveredIsWord ==
    \E i \in 1..Len(word_find_iter(line)) : word_find_iter(line)[i] = hovered_word_range

\* the word starts the sweeps look at, in line order
SweepStarts == SortedSeq(WordStarts(SubSeq(line, 1, hovered_word_range.end)))

\* the stripped interior of the surrounding pair when one is found that
\* differs from the hovered range
InteriorStage ==
    LET pair == LongestFirstListed(line, hovered_word_range)
    IN IF IsSome(pair) /\ Unwrap(pair) # hovered_word_range
       THEN << Rng(Unwrap(pair).start + 1, Unwrap(pair).end - 1) >>
       ELSE <<>>

\* the capture of the preapproved regex, when path_regex_match returns one
PreapprovedStage ==
    path_regex_match(line, hovered_word_range, preapproved_path_hyperlink_regexes)

\* how many sweep candidates the Default tier yields
DefaultSweepLen == Min({MAX_MAIN_THREAD_PREFIX_WORDS, Len(SweepStarts)})

\* the sweep candidates at the end of the Default tier
DefaultSweep ==
    SubSeq(RangesOf(default_variants),
           Len(default_variants) - DefaultSweepLen + 1, Len(default_variants))

\* the sweep candidates of the Advanced tier, after its regex candidate
AdvancedSweep ==
    SubSeq(RangesOf(advanced_variants),
           Len(path_regex_match(line, hovered_word_range, path_hyperlink_regexes)) + 1,
           Len(advanced_variants))

\* C12: default_maybe_path_variants yields the hovered word range first; then,
\* only if a surrounding pair is found and its range differs from the hovered
\* range, the pair's stripped interior; then the preapproved regex capture if
\* any; then the line-ends-in-a-path candidates [w, len(line)) of the first
\* MAX_MAIN_THREAD_PREFIX_WORDS word starts, the later word start first; and
\* nothing else.
C12_DefaultStageOrder ==
    pc = "default" =>
        LET ranges == RangesOf(default_variants)
            n2 == Len(InteriorStage)
            n3 == Len(PreapprovedStage)
        IN /\ Len(ranges) = 1 + n2 + n3 + DefaultSweepLen
           /\ ranges[1] = hovered_word_range
           /\ n2 = 1 => ranges[2] = InteriorStage[1]
           /\ n3 = 1 => ranges[2 + n2] = PreapprovedStage[1]
           /\ \A k \in 1..DefaultSweepLen :
                  ranges[1 + n2 + n3 + k] =
                      Rng(SweepStarts[DefaultSweepLen + 1 - k], Len(line))

C12_Witness ==
    /\ pc = "default"
    /\ Len(InteriorStage) = 1
    /\ Len(PreapprovedStage) = 1
    /\ DefaultSweepLen = MAX_MAIN_THREAD_PREFIX_WORDS
    /\ \A i, j \in 1..Len(default_variants) :
           i # j => default_variants[i].range # default_variants[j].range

StartsAtOrBefore ==
    SortedSeq({w \in WordStarts(line) : w <= hovered_word_range.start})

\* the word ends of the line at or after the end of the hovered word, the
\* latest first
EndsAtOrAfter ==
    Reverse(SortedSeq({e \in {WordEndOf(line, w) : w \in WordStarts(line)} :
                          e >= hovered_word_range.end}))

\* every start with every end, the ends descending for each start
CrossProduct ==
    [k \in 1..(Len(StartsAtOrBefore) * Len(EndsAtOrAfter)) |->
        Rng(StartsAtOrBefore[((k - 1) \div Len(EndsAtOrAfter)) + 1],
            EndsAtOrAfter[((k - 1) % Len(EndsAtOrAfter)) + 1])]

\* C16 as claimed: exhaustive_maybe_path_variants, in terminal_view and in the
\* terminal crate, yields exactly the cross product of every word start
\* s <= hovered.start with every word end e >= hovered.end, the ends in
\* descending order for each start.
C16_ExhaustiveEndsDescending ==
    (pc \in {"exhaustive", "terminal_exhaustive"} /\ HoveredIsWord) =>
        RangesOf(exhaustive_variants) = CrossProduct

\* C16 for terminal_view alone: the cross product, the ends descending for
\* each start; every range contains the hovered range, which is yielded too.
C16_TerminalViewEndsDescending ==
    (pc = "exhaustive" /\ HoveredIsWord) =>
        /\ RangesOf(exhaustive_variants) = CrossProduct
        /\ \A i \in 1..Len(exhaustive_variants) :
               IsSubrange(hovered_word_range, exhaustive_variants[i].range)
        /\ \E i \in 1..Len(exhaustive_variants) :
               exhaustive_variants[i].range = hovered_word_range

C16_Witness ==
    /\ pc = "exhaustive"
    /\ HoveredIsWord
    /\ Len(StartsAtOrBefore) >= 2
    /\ Len(EndsAtOrAfter) >= 2

----------------------------------------------------------------------------
(* path_regex_match *)

Overlaps(a, b) == a.start < b.end /\ b.start < a.end

\* the `path` captures of the regexes of a list on a line
CapturesOf(text, regexes) ==
    {Unwrap(Unwrap(captures(regexes[i], text)).path) :
        i \in {j \in 1..Len(regexes) :
                  /\ IsSome(captures(regexes[j], text))
                  /\ IsSome(Unwrap(captures(regexes[j], text)).path)}}

\* C13: path_regex_match returns a regex's `path` capture if and only if
\* that capture shares at least one byte with the hovered word range: what
\* it returns is a capture overlapping the hover, and it returns one whenever
\* some regex's capture overlaps the hover.
C13_ReturnedIffOverlaps ==
    pc = "regex" =>
        /\ IsSome(regex_match) =>
               /\ Unwrap(regex_match) \in CapturesOf(line, regexes_tried)
               /\ Overlaps(Unwrap(regex_match), hovered_word_range)
        /\ (\E c \in CapturesOf(line, regexes_tried) : Overlaps(c, hovered_word_range))
               => IsSome(regex_match)

\* the regexes of a list whose `path` capture path_regex_match accepts
Eligible(text, hovered, regexes) ==
    {i \in 1..Len(regexes) :
        /\ IsSome(captures(regexes[i], text))
        /\ IsSome(Unwrap(captures(regexes[i], text)).path)
        /\ capture_touches_hovered(hovered, Unwrap(Unwrap(captures(regexes[i], text)).path))}

\* C14: path_regex_match always yields a value: a regex that does not match
\* the line, or whose `path` group did not participate, is skipped, and the
\* result is the capture of the first regex in list order that is neither
\* skipped nor rejected, None if there is none, None for the empty list.
C14_SkipsAndContinues ==
    pc = "regex" =>
        /\ regex_match \in {None} \cup {Some(r) : r \in TargetRanges(line)}
        /\ regexes_tried = <<>> => regex_match = None
        /\ IF Eligible(line, hovered_word_range, regexes_tried) = {}
           THEN regex_match = None
           ELSE regex_match =
                    Unwrap(captures(
                        regexes_tried[Min(Eligible(line, hovered_word_range, regexes_tried))],
                        line)).path

\* the first regex matched without its `path` group and a later one answered
C14_Witness ==
    /\ pc = "regex"
    /\ Len(regexes_tried) = 2
    /\ captures(regexes_tried[1], line) = Some([path |-> None])
    /\ IsSome(regex_match)

----------------------------------------------------------------------------
(* MaybePathLike *)

\* the text of the cells first..last of the terminal line
CellsText(first, last) ==
    LET RECURSIVE Cat(_)
        Cat(i) == IF i > last THEN <<>> ELSE term[i + 1] \o Cat(i + 1)
    IN Cat(first)

\* C17: best_heuristic_hovered_word returns the first that exists of: the
\* stripped interior of the longest surrounding symbol pair, the hovered
\* word if it looks like a path, the preapproved regex's `path` capture at
\* the hover; so a hovered `<word>:` with no pair and no path look yields
\* the capture and not None.
C17_FirstOfThreeChoices ==
    pc = "best" =>
        LET pair == longest_surrounding_symbols_match(line, hovered_word_range)
            capture == path_regex_match(line, hovered_word_range,
                                        preapproved_path_hyperlink_regexes)
        IN IF IsSome(pair)
           THEN /\ IsSome(hovered_word)
                /\ Unwrap(hovered_word).word =
                       Slice(line, Rng(Unwrap(pair).start + 1, Unwrap(pair).end - 1))
           ELSE IF looks_like_a_path_match(line, hovered_word_range)
           THEN /\ IsSome(hovered_word)
                /\ Unwrap(hovered_word).word = Slice(line, hovered_word_range)
           ELSE IF IsSome(capture)
           THEN /\ IsSome(hovered_word)
                /\ Unwrap(hovered_word).word = Slice(line, Unwrap(capture))
           ELSE hovered_word = None

\* C18: match_from_text_range moves the start of the hovered Match by the
\* grapheme count of the text between the hovered start and the target
\* start, forward or back, and independently the end by the grapheme count
\* between the hovered end and the target end; a target equal to the hovered
\* range gives the hovered Match.
C18_StartAndEndIndependent ==
    pc = "matched" =>
        LET t == Unwrap(text_range)
            h == hovered_word_range
            m == Unwrap(word_match)
            r == Unwrap(text_match)
        IN /\ t.start > h.start =>
                  r.start = m.start + graphemes_count(Slice(line, Rng(h.start, t.start)))
           /\ t.start < h.start =>
                  r.start = m.start - graphemes_count(Slice(line, Rng(t.start, h.start)))
           /\ t.start = h.start => r.start = m.start
           /\ t.end > h.end =>
                  r.end = m.end + graphemes_count(Slice(line, Rng(h.end, t.end)))
           /\ t.end < h.end =>
                  r.end = m.end - graphemes_count(Slice(line, Rng(t.end, h.end)))
           /\ t.end = h.end => r.end = m.end
           /\ t = h => r = m

\* the start moved back over a combining mark while the end moved forward
C18_Witness ==
    /\ pc = "matched"
    /\ Unwrap(text_range).start < hovered_word_range.start
    /\ Unwrap(text_range).end > hovered_word_range.end
    /\ \E i \in (Unwrap(text_range).start + 1)..hovered_word_range.start :
           line[i] = COMBINING_MARK
    /\ Unwrap(text_match).start < Unwrap(word_match).start
    /\ Unwrap(text_match).end > Unwrap(word_match).end

\* the offsets of a text at which a grapheme cluster starts or the text ends
ClusterBoundaries(text) ==
    {i \in 0..Len(text) : i = 0 \/ i = Len(text) \/ text[i + 1] # COMBINING_MARK}

\* the clusters, whole or cut, of text[a..b)
ClustersBetween(text, a, b) ==
    Cardinality({i \in a..(b - 1) : i = a \/ i \in ClusterBoundaries(text)})

\* the cluster boundaries that lie delta clusters from an offset
OffsetsAt(text, from, delta) ==
    {b \in ClusterBoundaries(text) :
        IF delta >= 0
        THEN b >= from /\ ClustersBetween(text, from, b) = delta
        ELSE b <= from /\ ClustersBetween(text, b, from) = 0 - delta}

\* the byte ranges a Match maps back to, by counting clusters from the
\* hovered range
BackProject(text, hovered, hovered_match, m) ==
    {Rng(s, e) : s \in OffsetsAt(text, hovered.start, m.start - hovered_match.start),
                 e \in OffsetsAt(text, hovered.end, m.end - hovered_match.end)}

OnClusterBoundaries(text, r) ==
    r.start \in ClusterBoundaries(text) /\ r.end \in ClusterBoundaries(text)

\* C19 as stated: for every target range inside the line, the Match of
\* match_from_text_range maps back, by the same grapheme counts, to exactly
\* the target, also when the target starts or ends inside a cluster.
C19_RoundTripEveryTarget ==
    pc = "matched" =>
        BackProject(line, hovered_word_range, Unwrap(word_match), Unwrap(text_match))
            = {Unwrap(text_range)}

\* C19: for every target range inside the line whose start and end lie on
\* grapheme cluster boundaries, the Match of match_from_text_range maps
\* back, by the same grapheme counts, to exactly the target.
C19_RoundTripOnClusterBoundaries ==
    (pc = "matched" /\ OnClusterBoundaries(line, Unwrap(text_range))) =>
        BackProject(line, hovered_word_range, Unwrap(word_match), Unwrap(text_match))
            = {Unwrap(text_range)}

\* a target on cluster boundaries that spans a multi-scalar cluster and
\* reaches to both sides of the hovered word
C19_Witness ==
    /\ pc = "matched"
    /\ OnClusterBoundaries(line, Unwrap(text_range))
    /\ Unwrap(text_range).start < hovered_word_range.start
    /\ Unwrap(text_range).end > hovered_word_range.end
    /\ \E i \in (Unwrap(text_range).start + 1)..Unwrap(text_range).end :
           line[i] = COMBINING_MARK
    /\ Unwrap(text_match) # Unwrap(word_match)

\* C20: from_hovered_word_match builds the line as the text left of the
\* hovered cells, the hovered text, the text right of them, with the hovered
\* range the place of the hovered text in it, the left (right) part empty
\* when the word starts (ends) the line; from_file_url makes the IRI the
\* line and the whole line the hovered range.
C20_LineAndWordRange ==
    LET m == Unwrap(word_match)
        left_context == CellsText(0, m.start - 1)
        hovered_text == CellsText(m.start, m.end)
        right_context == CellsText(m.end + 1, Len(term) - 1)
    IN /\ pc = "like" =>
              /\ line = left_context \o hovered_text \o right_context
              /\ hovered_word_range =
                     Rng(Len(left_context), Len(left_context) + Len(hovered_text))
              /\ Slice(line, hovered_word_range) = hovered_text
              /\ m.start = 0 => hovered_word_range.start = 0
              /\ m.end = Len(term) - 1 => hovered_word_range.end = Len(line)
       /\ pc = "file_url" =>
              /\ line = hovered_text
              /\ hovered_word_range = Rng(0, Len(line))

\* a hovered word holding a multi-scalar cell, with text on both sides
C20_Witness ==
    /\ pc = "like"
    /\ Unwrap(word_match).start > 0
    /\ Unwrap(word_match).end < Len(term) - 1
    /\ hovered_word_range.end - hovered_word_range.start >
           Unwrap(word_match).end - Unwrap(word_match).start + 1

----------------------------------------------------------------------------
(* The tiers: base ranges *)

\* every range a tier of the run has handed to MaybePathVariant::new
TierRanges ==
    {default_variants[i].range : i \in 1..Len(default_variants)}
    \cup {advanced_variants[i].range : i \in 1..Len(advanced_variants)}
    \cup {exhaustive_variants[i].range : i \in 1..Len(exhaustive_variants)}

\* C21: for every non-empty hovered range inside the line, every variant of
\* the Default, Advanced and Exhaustive tiers has a base range with
\* 0 <= start < end <= len(line); the stripped interior of a surrounding
\* pair handed to MaybePathVariant::new is never empty.
C21_BaseRangesNonEmpty ==
    pc \in {"default", "advanced", "exhaustive"} =>
        \A r \in TierRanges : 0 <= r.start /\ r.start < r.end /\ r.end <= Len(line)

\* C25: the sweep of the Default tier yields at most
\* MAX_MAIN_THREAD_PREFIX_WORDS candidates, each [w, len(line)) for a word
\* start w at or before the start of the hovered word, the later word start
\* first: of two, the one that starts at the second word of the line comes
\* before the one that starts at its first word.
C25_DefaultSweepReversed ==
    (pc = "default" /\ HoveredIsWord) =>
        /\ Len(DefaultSweep) <= MAX_MAIN_THREAD_PREFIX_WORDS
        /\ \A k \in 1..Len(DefaultSweep) :
               /\ DefaultSweep[k].end = Len(line)
               /\ DefaultSweep[k].start \in WordStarts(line)
               /\ DefaultSweep[k].start <= hovered_word_range.start
        /\ \A j, k \in 1..Len(DefaultSweep) :
               j < k => DefaultSweep[j].start > DefaultSweep[k].start
        /\ Len(DefaultSweep) = MAX_MAIN_THREAD_PREFIX_WORDS =>
               /\ DefaultSweep[Len(DefaultSweep)].start = Min(WordStarts(line))
               /\ DefaultSweep[1].start = Min(WordStarts(line) \ {Min(WordStarts(line))})

\* three words at or before the hover, of which the sweep keeps the first two
C25_Witness ==
    /\ pc = "default"
    /\ HoveredIsWord
    /\ Len(SweepStarts) > MAX_MAIN_THREAD_PREFIX_WORDS
    /\ Len(DefaultSweep) = MAX_MAIN_THREAD_PREFIX_WORDS
    /\ DefaultSweep[1].start > DefaultSweep[2].start

\* C27: no two candidates yielded by one run of default_maybe_path_variants
\* have the same base range.
C27_DefaultRangesDistinct ==
    pc = "default" =>
        \A i, j \in 1..Len(default_variants) :
            i # j => default_variants[i].range # default_variants[j].range

----------------------------------------------------------------------------
(* The projections of a variant: order and prefix *)

RECURSIVE ConcatCandidatesOf(_)
\* the candidates of the variations from the i-th on, variation by variation
ConcatCandidatesOf(i) ==
    IF i > Len(V.variations) THEN <<>>
    ELSE CandidatesOf(V.variations[i], None) \o ConcatCandidatesOf(i + 1)

\* C26: absolutized_variations is the concatenation, over the stored
\* variations in order, of the absolutize output of each with no position,
\* followed last by the absolutize output of the positioned variation with
\* its position: positioned candidates come after all the others.
C26_PositionedLast ==
    pc = "absolutized" =>
        /\ absolutized =
               ConcatCandidatesOf(1)
               \o (IF HasPositioned
                   THEN CandidatesOf(Positioned.range, Some(Positioned.position))
                   ELSE <<>>)
        /\ \A i, j \in 1..Len(absolutized) :
               (i < j /\ IsSome(absolutized[i].position)) => IsSome(absolutized[j].position)
        /\ HasPositioned => IsSome(absolutized[Len(absolutized)].position)
        /\ \A i \in 1..Len(V.variations) : AbsolutizeYields(V.variations[i], None)

C26_Witness ==
    /\ pc = "absolutized"
    /\ HasPositioned
    /\ Len(V.variations) >= 2
    /\ absolutized[1].position = None
    /\ absolutized[Len(absolutized)].position = Some(Positioned.position)

\* the components of a path text: its pieces between separators, `.` pieces
\* after the first left out
ComponentsOfText(text) == PathOf(text).comps

\* C28: relative_variations yields, for a relative variation whose path
\* starts with the given prefix, the path without the prefix, and otherwise
\* the path of the variation's text; with an absolute worktree root as the
\* prefix every yielded path is the variation's text unchanged.
C28_StripsWorktreePrefix ==
    pc = "relative" =>
        \A i \in 1..Len(relative) :
            LET comps == ComponentsOfText(Slice(line, relative[i].range))
                given == IF IsSome(prefix_to_strip) THEN Unwrap(prefix_to_strip).comps
                         ELSE <<>>
                begins == /\ IsSome(prefix_to_strip)
                          /\ ~Unwrap(prefix_to_strip).has_root
                          /\ Len(given) <= Len(comps)
                          /\ SubSeq(comps, 1, Len(given)) = given
            IN /\ ~relative[i].path.has_root
               /\ begins => relative[i].path.comps =
                                SubSeq(comps, Len(given) + 1, Len(comps))
               /\ ~begins => relative[i].path.comps = comps
               /\ (IsSome(prefix_to_strip) /\ Unwrap(prefix_to_strip).has_root) =>
                      relative[i].path = PathOf(Slice(line, relative[i].range))

\* a relative prefix was stripped from one variation and not from another
C28_Witness ==
    /\ pc = "relative"
    /\ prefix_to_strip = Some(WORKTREE_DIR)
    /\ \E i, j \in 1..Len(relative) :
           /\ relative[i].path # PathOf(Slice(line, relative[i].range))
           /\ relative[j].path = PathOf(Slice(line, relative[j].range))

----------------------------------------------------------------------------
(* MaybePathLike: the highlight *)

\* C29: whenever best_heuristic_hovered_word returns a highlight, its text
\* is non-empty and its Match has start <= end, also when the hovered word
\* is exactly an adjacent surrounding pair.
C29_HighlightNonEmpty ==
    (pc = "best" /\ IsSome(hovered_word)) =>
        /\ Unwrap(hovered_word).word # <<>>
        /\ Unwrap(hovered_word).word_match.start <= Unwrap(hovered_word).word_match.end

\* the text of the cells of a Match, when the Match lies on the line
DisplayedBy(m) ==
    IF 0 <= m.start /\ m.start <= m.end /\ m.end < Len(term)
    THEN Some(CellsText(m.start, m.end))
    ELSE None

\* C30: for every target range on the line, the Match of
\* match_from_text_range spans exactly the cells that display the text of
\* the target: the text of its cells is line[target], also when a grapheme
\* between the hovered word and the target occupies two cells.
C30_MatchDisplaysTarget ==
    pc = "matched" =>
        DisplayedBy(Unwrap(text_match)) = Some(Slice(line, Unwrap(text_range)))

----------------------------------------------------------------------------
(* Resolution *)

\* every absolutized candidate of the tiers of the resolution, in order
AllCandidates == actual_absolutized(line, Ranges, 1)

\* the filesystem holds the path
Exists(path) == path \in DOMAIN fs /\ fs[path] = "Ok(Some)"

\* the candidates of a list that exist
Hits(candidates) == {i \in 1..Len(candidates) : Exists(candidates[i].path)}

\* the first candidate of a list that exists
FirstHit(candidates) ==
    IF Hits(candidates) = {} THEN None ELSE Some(candidates[Min(Hits(candidates))])

\* C22: a resolution returns the first candidate, in candidate order, whose
\* metadata probe succeeds, and None when none does; a probe that fails with
\* an error is a miss and the next candidate is probed; so a list that
\* resolves to a target resolves to the same target with further candidates
\* appended.
C22_FirstHitWins ==
    pc = "resolved" =>
        LET all == AllCandidates
            hits == Hits(all)
            found == actual_open_target(all, fs)
        IN /\ open_target = FirstHit(all)
           /\ open_target = found
           /\ probes = [i \in 1..(IF hits = {} THEN Len(all) ELSE Min(hits)) |->
                            all[i].path]
           /\ \A k \in 0..Len(all) :
                  LET shorter == actual_open_target(SubSeq(all, 1, k), fs)
                  IN /\ shorter = FirstHit(SubSeq(all, 1, k))
                     /\ IsSome(shorter) => found = shorter

\* a probe failed with an error before the hit, and a later candidate exists too
C22_Witness ==
    /\ pc = "resolved"
    /\ IsSome(open_target)
    /\ \E i \in 1..Len(probes) : metadata(fs, probes[i]) = "Err"
    /\ Cardinality(Hits(AllCandidates)) >= 2

Pair == longest_surrounding_symbols_match(line, hovered_word_range)

\* the path the stripped interior of the pair names
InteriorPath == PathOf(Slice(line, Rng(Unwrap(Pair).start + 1, Unwrap(Pair).end - 1)))

\* the hovered word is inside a pair whose interior is an absolute path that exists
InteriorExists ==
    /\ IsSome(Pair)
    /\ InteriorPath.has_root
    /\ Exists(InteriorPath)

\* the absolutized candidates of the Default tier, in order
DefaultCandidates ==
    actual_absolutized(line, default_maybe_path_variants(line, hovered_word_range), 1)

\* no candidate the Default tier yields before the interior path exists
NoEarlierExists ==
    LET candidates == DefaultCandidates
        interior == InteriorPath
    IN \A i \in 1..Len(candidates) :
           (\A j \in 1..i : candidates[j].path # interior) =>
               ~Exists(candidates[i].path)

\* C24 as claimed: when the hovered word lies inside a pair whose stripped
\* interior is an absolute path that exists, the open target is that
\* interior path with no position; when no candidate exists there is no
\* open target.
C24_InteriorIsOpenTarget ==
    pc = "resolved" =>
        /\ InteriorExists =>
               /\ IsSome(open_target)
               /\ Unwrap(open_target).path = InteriorPath
               /\ Unwrap(open_target).position = None
        /\ Hits(AllCandidates) = {} => open_target = None

\* C24: when the hovered word lies inside a pair whose stripped interior is
\* an absolute path that exists, and no candidate that the Default tier
\* yields before the interior path exists, the open target is that interior
\* path with no position; an earlier candidate that exists is the open
\* target instead; when no candidate exists there is no open target.
C24_InteriorUnlessEarlierExists ==
    pc = "resolved" =>
        /\ InteriorExists =>
               /\ IsSome(open_target)
               /\ NoEarlierExists =>
                      /\ Unwrap(open_target).path = InteriorPath
                      /\ Unwrap(open_target).position = None
               /\ ~NoEarlierExists => Unwrap(open_target).path # InteriorPath
        /\ Hits(AllCandidates) = {} => open_target = None

\* the hovered word is the first word inside the pair and names nothing that
\* exists; the interior is found after its candidates missed
C24_Witness ==
    /\ pc = "resolved"
    /\ InteriorExists
    /\ Unwrap(Pair) # hovered_word_range
    /\ Len(probes) >= 3
    /\ IsSome(open_target)
    /\ Unwrap(open_target).path = InteriorPath
    /\ Unwrap(open_target).path.comps # PathOf(Slice(line, hovered_word_range)).comps

====
